---- MODULE Spec2Model ----
(***************************************************************************)
(* Model of the BettaFish research agent (MediaEngine/agent.py): the       *)
(* research state machine of DeepSearchAgent.research(), the search tool   *)
(* dispatch of execute_search_tool() and the multimodal cross-validation   *)
(* of analyze_multimodal(); of the content store client                    *)
(* (InsightEngine/tools/search.py): the URL reconstruction of              *)
(* _construct_url_smart() and the table fan-out of search_topic_globally();*)
(* of its column cache (_get_table_columns); and of the link repair agent  *)
(* (ReportEngine/ir/link_repair.py): the liveness probe of _is_url_alive() *)
(* and the repair pass of repair_process().                                *)
(*                                                                         *)
(* Opaque texts produced by collaborators (search queries, summaries, the  *)
(* LLM-formatted report) are modelled by their provenance: the code never  *)
(* branches on their content, it only stores them and passes them on.      *)
(***************************************************************************)
EXTENDS Integers, Sequences, FiniteSets, TLC

VARIABLES
    pc,                 \* position of the control flow of research()
    MAX_REFLECTIONS,    \* self.config.MAX_REFLECTIONS
    paragraphs,         \* self.state.paragraphs
    report_title,       \* self.state.report_title
    paragraph_index,    \* i of _process_paragraphs / paragraph_index
    reflection_i,       \* loop variable of _reflection_loop
    search_tool,        \* local search_tool of the current round
    adapter_call,       \* the call execute_search_tool made on self.search_agency
    search_response,    \* local search_response of the current round
    report_data,        \* local report_data of _generate_final_report
    formatter_calls,    \* calls of report_formatting_node: "run", "format_report_manually"
    final_report,       \* self.state.final_report
    is_completed,       \* set by self.state.mark_completed()
    save_report,        \* argument save_report of research(), once it is read
    report_file,        \* content of the report file in OUTPUT_DIR
    state_file,         \* content of the state snapshot file in OUTPUT_DIR
    returned,           \* the value research() returned
    raised,             \* the stage whose exception research() re-raised
    tool_name,          \* argument tool_name of a direct execute_search_tool call
    query,              \* argument query of a direct execute_search_tool call
    kwargs,             \* argument **kwargs of a direct execute_search_tool call
    dispatched,         \* the adapter call that direct call made
    media_data,         \* argument media_data of analyze_multimodal
    text_context,       \* argument text_context of analyze_multimodal
    media_analysis,     \* the dict analyze_multimodal returned
    platform,           \* argument platform of _construct_url_smart
    row,                \* argument row of _construct_url_smart
    constructed,        \* the string _construct_url_smart returned
    tables,             \* the rows of the content store, by table
    topic,              \* argument topic of search_topic_globally
    limit_per_table,    \* argument limit_per_table of search_topic_globally
    lookups,            \* the queries search_topic_globally executed
    all_results,        \* local all_results of search_topic_globally
    url,                \* argument url of _is_url_alive
    head_outcome,       \* what requests.head does for url
    get_outcome,        \* what requests.get does for url
    requests,           \* the requests _is_url_alive issued
    alive,              \* the value _is_url_alive returned
    failing,            \* the tables whose query makes fetch_all raise
    table_columns_cache,\* MediaCrawlerDB._table_columns_cache
    column_queries,     \* the SHOW COLUMNS queries executed: instance and table
    column_call,        \* the last call of _get_table_columns and its value
    loaded_state,       \* self.state of a second agent after load_state
    db_tool,            \* self.db_tool of the link repair agent
    document,           \* the report_data tree handed to repair_process
    passes,             \* the calls of repair_process made, in order
    forum_logs,         \* argument forum_logs of generate_host_speech
    opinions,           \* argument opinions of _detect_conflicts
    host_env,           \* what the collaborators of the forum host do
    host_call           \* the last call made on the forum host and its outcome

vars == << pc, MAX_REFLECTIONS, paragraphs, report_title, paragraph_index,
           reflection_i, search_tool, adapter_call, search_response,
           report_data, formatter_calls, final_report, is_completed, save_report,
           report_file, state_file, returned, raised,
           tool_name, query, kwargs, dispatched,
           media_data, text_context, media_analysis,
           platform, row, constructed,
           tables, topic, limit_per_table, lookups, all_results,
           url, head_outcome, get_outcome, requests, alive,
           failing, table_columns_cache, column_queries, column_call,
           loaded_state, db_tool, document, passes,
           forum_logs, opinions, host_env, host_call >>

researchVars == << pc, MAX_REFLECTIONS, paragraphs, report_title,
                   paragraph_index, reflection_i, search_tool, adapter_call,
                   search_response, report_data, formatter_calls, final_report, is_completed,
                   save_report, report_file, state_file, returned, raised >>

dispatchVars == << tool_name, query, kwargs, dispatched >>

multimodalVars == << media_data, text_context, media_analysis >>

constructVars == << platform, row, constructed >>

topicVars == << tables, topic, limit_per_table, lookups, all_results, failing >>

probeVars == << url, head_outcome, get_outcome, requests, alive >>

cacheVars == << table_columns_cache, column_queries, column_call >>

repairVars == << db_tool, document, passes >>

hostVars == << forum_logs, opinions, host_env, host_call >>

\* the state of the content store client, of the link repair agent, of a
\* second research agent and of the forum host
toolVars == << constructVars, topicVars, probeVars, cacheVars, repairVars,
               loaded_state, hostVars >>

----------------------------------------------------------------------------
(* Bounds of the model *)

\* largest number of paragraphs the structure collaborator yields
MaxParagraphs == 2

\* largest number of webpages the adapter returns to the call of one round
MaxWebpages == 11

\* largest configured MAX_REFLECTIONS
MaxReflections == 2

\* longest text snippet, in characters
MaxTextLen == 5

\* most keywords extracted from one media item
MaxKeywords == 2

\* Python's None where a string is expected (an absent "search_tool" key)
None == "None"

\* an empty text, an unset report, a file that does not exist
Empty == << >>

Min(a, b) == IF a < b THEN a ELSE b

\* a value computed once and then used by what follows, as a local
\* variable of the source is
With(value, Then(_)) == CHOOSE r \in { Then(v) : v \in { value } } : TRUE

----------------------------------------------------------------------------
(* Search tool dispatch *)

\* the tools execute_search_tool documents
ToolNames ==
    { "comprehensive_search", "web_search_only", "search_for_structured_data",
      "search_last_24_hours", "search_last_week" }

\* **kwargs without any keyword
NoKwargs == [k \in {} |-> 0]

\* kwargs.get(key, default)
KwargsGet(kw, key, default) == IF key \in DOMAIN kw THEN kw[key] ELSE default

\* default of max_results for comprehensive_search
ComprehensiveDefault == 10

\* default of max_results for web_search_only
WebOnlyDefault == 15

\* a call made on self.search_agency: the method and its positional arguments
AdapterCall(method, args) == [method |-> method, args |-> args]

\* no call made on self.search_agency
NoCall == AdapterCall("none", << >>)

\* a slip: **kwargs is handed on to every tool
ExecuteSearchToolAllCounts(name, q, kw) ==
    IF name \in ToolNames
    THEN AdapterCall(name, << q, KwargsGet(kw, "max_results", ComprehensiveDefault) >>)
    ELSE AdapterCall("comprehensive_search", << q >>)

\* the adapter call execute_search_tool(name, q, **kw) makes
ExecuteSearchTool(name, q, kw) ==
    IF name = "comprehensive_search"
    THEN AdapterCall("comprehensive_search",
                     << q, KwargsGet(kw, "max_results", ComprehensiveDefault) >>)
    ELSE IF name = "web_search_only"
    THEN AdapterCall("web_search_only",
                     << q, KwargsGet(kw, "max_results", WebOnlyDefault) >>)
    ELSE IF name = "search_for_structured_data"
    THEN AdapterCall("search_for_structured_data", << q >>)
    ELSE IF name = "search_last_24_hours"
    THEN AdapterCall("search_last_24_hours", << q >>)
    ELSE IF name = "search_last_week"
    THEN AdapterCall("search_last_week", << q >>)
    ELSE AdapterCall("comprehensive_search", << q >>)

\* max_results the rounds put into search_kwargs
RoundMaxResults == 10

\* search_kwargs of a round: max_results only for the two tools that take it
SearchKwargs(tool) ==
    IF tool \in {"comprehensive_search", "web_search_only"}
    THEN [max_results |-> RoundMaxResults]
    ELSE NoKwargs

\* search_output.get("search_tool", "comprehensive_search")
GetSearchTool(output_tool) ==
    IF output_tool = None THEN "comprehensive_search" ELSE output_tool

----------------------------------------------------------------------------
(* analyze_multimodal *)

\* the characters of a text: "bu" and "wu" stand for the negations U+4E0D and
\* U+65E0, "de" for the stop word U+7684, "k" and "K" for a letter in lower
\* and upper case, "sp" for a space; all but "sp" match \w
Alphabet == { "bu", "wu", "de", "k", "K", "sp" }

\* str.lower() of one character
LowerChar(c) == IF c = "K" THEN "k" ELSE c

\* text_context.lower()
Lower(text) == [n \in 1..Len(text) |-> LowerChar(text[n])]

\* whether the character matches \w
IsWordChar(c) == c # "sp"

\* re.findall(r'\b\w+\b', text): the maximal runs of word characters, where
\* word is the run being read
RECURSIVE FindWords(_, _)
FindWords(text, word) ==
    IF text = << >>
    THEN IF word = << >> THEN << >> ELSE << word >>
    ELSE IF IsWordChar(Head(text))
    THEN FindWords(Tail(text), Append(word, Head(text)))
    ELSE IF word = << >>
    THEN FindWords(Tail(text), << >>)
    ELSE << word >> \o FindWords(Tail(text), << >>)

\* the stop words of _extract_keywords, of which the model's alphabet holds one
StopWords == { << "de" >> }

\* the words of a list that are no stop words
NotStopWord(w) == w \notin StopWords

\* _extract_keywords(text_context)
ExtractKeywords(text) ==
    IF text = << >>
    THEN << >>
    ELSE SelectSeq(FindWords(Lower(text), << >>), NotStopWord)

\* the elements of a list
Range(seq) == { seq[n] : n \in 1..Len(seq) }

\* "confidence": 1.0, as a fraction
InitialConfidence == [num |-> 1, den |-> 1]

\* confidence * 0.5
Halve(c) == [num |-> c.num, den |-> c.den * 2]

\* media_data.get(key, default)
MediaGet(data, key, default) == IF key \in DOMAIN data THEN data[key] ELSE default

\* _base_media_analysis(media_data)
BaseMediaAnalysis(data) ==
    [type |-> MediaGet(data, "type", None),
     keywords |-> MediaGet(data, "extracted_keywords", << >>),
     description |-> MediaGet(data, "description", "no description"),
     confidence |-> InitialConfidence,
     final_conclusion |-> << "analysis", MediaGet(data, "description", "no description") >>]

\* the media keywords the text negates: f"bu{kw}" or f"wu{kw}" is a keyword
\* of the text
Conflicting(keywords, text_keywords) ==
    LET Negated(kw) == \/ (<< "bu" >> \o kw) \in Range(text_keywords)
                       \/ (<< "wu" >> \o kw) \in Range(text_keywords)
    IN  SelectSeq(keywords, Negated)

\* _check_conflict(media_analysis, text_context)
CheckConflict(analysis, text) ==
    LET conflicting == Conflicting(analysis.keywords, ExtractKeywords(text))
    IN  [has_conflict |-> Len(conflicting) > 0,
         reason |-> << "conflicting", conflicting >>]

\* n times confidence * 0.5
RECURSIVE HalveTimes(_, _)
HalveTimes(c, n) == IF n = 0 THEN c ELSE HalveTimes(Halve(c), n - 1)

\* a slip: the confidence is halved once for each conflicting keyword
AnalyzeMultimodalPerKeyword(data, text) ==
    LET base  == BaseMediaAnalysis(data)
        check == CheckConflict(base, text)
    IN  IF check.has_conflict
        THEN [base EXCEPT !.confidence = HalveTimes(@, Len(check.reason[2])),
                          !.final_conclusion = << "caution" >> \o @]
             @@ ("conflict_note" :> << "conflict", check.reason >>)
        ELSE base

\* analyze_multimodal(media_data, text_context)
AnalyzeMultimodal(data, text) ==
    LET base  == BaseMediaAnalysis(data)
        check == CheckConflict(base, text)
    IN  IF check.has_conflict
        THEN [base EXCEPT !.confidence = Halve(@),
                          !.final_conclusion = << "caution" >> \o @]
             @@ ("conflict_note" :> << "conflict", check.reason >>)
        ELSE base

----------------------------------------------------------------------------
(* Search responses and their conversion *)

\* upper limit of results a round consumes
ResultCap == 10

\* a BochaResponse with n webpages, in adapter order
Response(n) ==
    [webpages |-> [k \in 1..n |-> [name |-> k, snippet |-> << >>, multimedia |-> << >>]]]

\* the adapter returned None instead of a BochaResponse
NoneResponse == [is_none |-> TRUE]

\* if search_response and search_response.webpages
HasWebpages(response) ==
    /\ "webpages" \in DOMAIN response
    /\ Len(response.webpages) > 0

\* the entry of search_results for one webpage: every media item of the
\* page is analysed against the page's snippet
ConvertResult(result) ==
    [title |-> result.name,
     content |-> result.snippet,
     media_analysis |->
        [m \in 1..Len(result.multimedia) |->
            AnalyzeMultimodal(result.multimedia[m], result.snippet)]]

\* a slip: every webpage of the response is converted
ConvertResultsUncapped(response) ==
    IF HasWebpages(response)
    THEN [k \in 1..Len(response.webpages) |-> ConvertResult(response.webpages[k])]
    ELSE << >>

\* the search_results list a round builds from the response
ConvertResults(response) ==
    IF HasWebpages(response)
    THEN LET max_results == Min(Len(response.webpages), ResultCap)
         IN  [k \in 1..max_results |-> ConvertResult(response.webpages[k])]
    ELSE << >>

----------------------------------------------------------------------------
(* State of a run *)

\* the k-th Paragraph as the structure collaborator creates it
NewParagraph(k) ==
    [title |-> << "title", k >>, search_history |-> << >>, summaries |-> << >>,
     latest_summary |-> Empty, completed |-> FALSE]

\* paragraph.research.add_search_results(query, results, search_tool=...)
AddSearchResults(ps, i, q, results, tool) ==
    [ps EXCEPT ![i].search_history =
        Append(@, [query |-> q, tool |-> tool, results |-> results])]

\* summary node mutate_state: the new summary becomes latest_summary
UpdateSummary(ps, i, summary) ==
    [ps EXCEPT ![i].latest_summary = summary,
               ![i].summaries = Append(@, summary)]

\* paragraph.research.mark_completed()
MarkCompleted(ps, i) == [ps EXCEPT ![i].completed = TRUE]

\* the text a collaborator returns in round r of paragraph i
TextOf(kind, i, r) == << kind, i, r >>

\* the numbers of paragraphs the structure collaborator may yield
Structures == 0..MaxParagraphs

\* the responses the search adapter may give in a run: None, no webpage,
\* one webpage
RunResponses == { NoneResponse, Response(0), Response(1) }

\* the "search_tool" the planning collaborator gives in a run: the key is
\* absent (all tool names are dispatched in DispatchSpec)
RunPlannedTools == { None }

----------------------------------------------------------------------------
(* research(): the run *)

\* a response before any search was made
NoResponse == [no_response |-> TRUE]

ResearchInit ==
    /\ pc = "constructed"
    /\ MAX_REFLECTIONS \in 0..MaxReflections
    /\ paragraphs = << >>
    /\ report_title = Empty
    /\ paragraph_index = 0
    /\ reflection_i = 0
    /\ search_tool = None
    /\ adapter_call = NoCall
    /\ search_response = NoResponse
    /\ report_data = << >>
    /\ formatter_calls = << >>
    /\ final_report = Empty
    /\ is_completed = FALSE
    /\ save_report = None
    /\ report_file = Empty
    /\ state_file = Empty
    /\ returned = Empty
    /\ raised = None

\* a slip: the handler swallows the exception and goes on to the report
RaiseSwallowed(stage) ==
    /\ pc' = "final_report"
    /\ raised' = stage

\* except Exception as e: ... raise e
Raise(stage) ==
    /\ pc' = "error"
    /\ raised' = stage

\* return final_report
Return ==
    /\ pc' = "done"
    /\ returned' = final_report

\* research() up to the end of _generate_report_structure
GenerateReportStructure ==
    /\ pc = "constructed"
    /\ \/ /\ Raise("structure")
          /\ UNCHANGED << paragraphs, report_title >>
       \/ \E n \in Structures :
            /\ paragraphs' = [k \in 1..n |-> NewParagraph(k)]
            /\ report_title' = << "title" >>
            /\ pc' = "process_paragraphs"
            /\ UNCHANGED raised
    /\ UNCHANGED << MAX_REFLECTIONS, paragraph_index, reflection_i, search_tool,
                    adapter_call, search_response, report_data, formatter_calls,
                    final_report, is_completed, save_report, report_file,
                    state_file, returned >>
    /\ UNCHANGED << dispatchVars, multimodalVars, toolVars >>

\* a slip: range(total_paragraphs - 1), the last paragraph is left out
MoreParagraphsOffByOne == paragraph_index < Len(paragraphs) - 1

\* for i in range(total_paragraphs)
MoreParagraphs == paragraph_index < Len(paragraphs)

\* head of the loop of _process_paragraphs
ProcessParagraphs ==
    /\ pc = "process_paragraphs"
    /\ pc' = IF MoreParagraphs THEN "first_search" ELSE "final_report"
    /\ UNCHANGED << MAX_REFLECTIONS, paragraphs, report_title, paragraph_index,
                    reflection_i, search_tool, adapter_call, search_response,
                    report_data, formatter_calls, final_report, is_completed,
                    save_report, report_file, state_file, returned, raised >>
    /\ UNCHANGED << dispatchVars, multimodalVars, toolVars >>

\* the paragraph the current round works on
Current == paragraphs[paragraph_index + 1]

\* the round number of the current round: 0 is the initial round
RoundOf(stage) == IF stage = "first" THEN 0 ELSE reflection_i + 1

\* the planning collaborator of a round: first_search_node.run or
\* reflection_node.run, then the reading of its output
PlanSearch(stage) ==
    /\ \/ /\ Raise("plan")
          /\ UNCHANGED search_tool
       \/ \E output_tool \in RunPlannedTools :
            /\ search_tool' = GetSearchTool(output_tool)
            /\ pc' = IF stage = "first" THEN "first_execute" ELSE "reflection_execute"
            /\ UNCHANGED raised
    /\ UNCHANGED << MAX_REFLECTIONS, paragraphs, report_title, paragraph_index,
                    reflection_i, adapter_call, search_response, report_data,
                    formatter_calls, final_report, is_completed, save_report,
                    report_file, state_file, returned >>
    /\ UNCHANGED << dispatchVars, multimodalVars, toolVars >>

\* a slip: search_results is not reset, a round without webpages keeps the
\* results of the round before
RoundResultsStale(response) ==
    IF HasWebpages(response) \/ Len(Current.search_history) = 0
    THEN ConvertResults(response)
    ELSE Current.search_history[Len(Current.search_history)].results

\* search_results = [] ... the conversion loop of a round
RoundResults(response) == ConvertResults(response)

\* a slip: the round goes on to the summary without appending its search
\* record
ExecuteSearchUnrecorded(stage) ==
    /\ adapter_call' = ExecuteSearchTool(search_tool,
                                         TextOf("query", paragraph_index, RoundOf(stage)),
                                         SearchKwargs(search_tool))
    /\ \E response \in RunResponses :
         /\ search_response' = response
         /\ paragraphs' = paragraphs
    /\ pc' = IF stage = "first" THEN "first_summary" ELSE "reflection_summary"
    /\ UNCHANGED << MAX_REFLECTIONS, report_title, paragraph_index, reflection_i,
                    search_tool, report_data, formatter_calls, final_report,
                    is_completed, save_report, report_file, state_file,
                    returned, raised >>
    /\ UNCHANGED << dispatchVars, multimodalVars, toolVars >>

\* the search of a round: execute_search_tool, the conversion of the response
\* and add_search_results; the adapter reports a failed search as a response
\* without webpages, not as an exception
ExecuteSearch(stage) ==
    /\ adapter_call' = ExecuteSearchTool(search_tool,
                                         TextOf("query", paragraph_index, RoundOf(stage)),
                                         SearchKwargs(search_tool))
    /\ \E response \in RunResponses :
         /\ search_response' = response
         /\ paragraphs' = AddSearchResults(paragraphs, paragraph_index + 1,
                                           TextOf("query", paragraph_index, RoundOf(stage)),
                                           RoundResults(response), search_tool)
    /\ pc' = IF stage = "first" THEN "first_summary" ELSE "reflection_summary"
    /\ UNCHANGED << MAX_REFLECTIONS, report_title, paragraph_index, reflection_i,
                    search_tool, report_data, formatter_calls, final_report,
                    is_completed, save_report, report_file, state_file,
                    returned, raised >>
    /\ UNCHANGED << dispatchVars, multimodalVars, toolVars >>

\* the summarization collaborator of a round: mutate_state of
\* first_summary_node or reflection_summary_node
Summarize(stage) ==
    /\ \/ /\ Raise("summarize")
          /\ UNCHANGED << paragraphs, reflection_i >>
       \/ /\ paragraphs' = UpdateSummary(paragraphs, paragraph_index + 1,
                                         TextOf("summary", paragraph_index, RoundOf(stage)))
          /\ reflection_i' = IF stage = "first" THEN 0 ELSE reflection_i + 1
          /\ pc' = "reflection_loop"
          /\ UNCHANGED raised
    /\ UNCHANGED << MAX_REFLECTIONS, report_title, paragraph_index, search_tool,
                    adapter_call, search_response, report_data, formatter_calls,
                    final_report, is_completed, save_report, report_file,
                    state_file, returned >>
    /\ UNCHANGED << dispatchVars, multimodalVars, toolVars >>

\* _initial_search_and_summary: first_search_node.run
FirstSearch == pc = "first_search" /\ PlanSearch("first")

\* _initial_search_and_summary: the search and the search record
FirstExecute == pc = "first_execute" /\ ExecuteSearch("first")

\* _initial_search_and_summary: first_summary_node.mutate_state
FirstSummary == pc = "first_summary" /\ Summarize("first")

\* a slip: the loop stops early once a round found no results
MoreReflectionsUntilEmpty ==
    /\ reflection_i < MAX_REFLECTIONS
    /\ Current.search_history[Len(Current.search_history)].results # << >>

\* for reflection_i in range(self.config.MAX_REFLECTIONS)
MoreReflections == reflection_i < MAX_REFLECTIONS

\* a slip: range(MAX_REFLECTIONS + 1), one reflection round too many
ReflectionLoopOneMore ==
    /\ pc = "reflection_loop"
    /\ pc' = IF reflection_i <= MAX_REFLECTIONS THEN "reflection" ELSE "mark_completed"
    /\ UNCHANGED << MAX_REFLECTIONS, paragraphs, report_title, paragraph_index,
                    reflection_i, search_tool, adapter_call, search_response,
                    report_data, formatter_calls, final_report, is_completed,
                    save_report, report_file, state_file, returned, raised >>
    /\ UNCHANGED << dispatchVars, multimodalVars, toolVars >>

\* head of the loop of _reflection_loop
ReflectionLoop ==
    /\ pc = "reflection_loop"
    /\ pc' = IF MoreReflections THEN "reflection" ELSE "mark_completed"
    /\ UNCHANGED << MAX_REFLECTIONS, paragraphs, report_title, paragraph_index,
                    reflection_i, search_tool, adapter_call, search_response,
                    report_data, formatter_calls, final_report, is_completed,
                    save_report, report_file, state_file, returned, raised >>
    /\ UNCHANGED << dispatchVars, multimodalVars, toolVars >>

\* _reflection_loop: reflection_node.run
Reflection == pc = "reflection" /\ PlanSearch("reflection")

\* _reflection_loop: the search and the search record
ReflectionExecute == pc = "reflection_execute" /\ ExecuteSearch("reflection")

\* _reflection_loop: reflection_summary_node.mutate_state
ReflectionSummary == pc = "reflection_summary" /\ Summarize("reflection")

\* _process_paragraphs: mark_completed() and the next i
MarkParagraphCompleted ==
    /\ pc = "mark_completed"
    /\ paragraphs' = MarkCompleted(paragraphs, paragraph_index + 1)
    /\ paragraph_index' = paragraph_index + 1
    /\ pc' = "process_paragraphs"
    /\ UNCHANGED << MAX_REFLECTIONS, report_title, reflection_i, search_tool,
                    adapter_call, search_response, report_data, formatter_calls,
                    final_report, is_completed, save_report, report_file,
                    state_file, returned, raised >>
    /\ UNCHANGED << dispatchVars, multimodalVars, toolVars >>

----------------------------------------------------------------------------
(* The final report and its saving *)

\* a slip: report_data is built in reverse paragraph order
ReportDataReversed(ps) ==
    [k \in 1..Len(ps) |->
        [title |-> ps[Len(ps) + 1 - k].title,
         paragraph_latest_state |-> ps[Len(ps) + 1 - k].latest_summary]]

\* report_data of _generate_final_report: one entry per paragraph, in order
ReportData(ps) ==
    [k \in 1..Len(ps) |->
        [title |-> ps[k].title,
         paragraph_latest_state |-> ps[k].latest_summary]]

\* the report the formatting collaborator returns for its input
LlmFormat(data) == << "llm", data >>

\* format_report_manually: "## {title}\n{latest summary}" per entry, in order
ManualFormat(data, title) ==
    << "manual", title,
       [k \in 1..Len(data) |-> << "## ", data[k].title, "\n", data[k].paragraph_latest_state >>] >>

\* a call of a method of report_formatting_node with its report_data
FormatterCall(method, data) == [method |-> method, data |-> data]

\* a slip: the failure of the formatting collaborator is re-raised
FormattingFailureRaised(data) ==
    /\ formatter_calls' = << FormatterCall("run", data) >>
    /\ Raise("format")
    /\ UNCHANGED << final_report, is_completed >>

\* except Exception: format_report_manually(report_data, report_title), then
\* the rest of _generate_final_report
FormattingFailure(data) ==
    /\ formatter_calls' = << FormatterCall("run", data),
                             FormatterCall("format_report_manually", data) >>
    /\ final_report' = ManualFormat(data, report_title)
    /\ is_completed' = TRUE
    /\ pc' = "save_check"
    /\ UNCHANGED raised

\* report_formatting_node.run(report_data) returned, then the rest of
\* _generate_final_report
FormattingSuccess(data) ==
    /\ formatter_calls' = << FormatterCall("run", data) >>
    /\ final_report' = LlmFormat(data)
    /\ is_completed' = TRUE
    /\ pc' = "save_check"
    /\ UNCHANGED raised

\* _generate_final_report
GenerateFinalReport ==
    /\ pc = "final_report"
    /\ report_data' = ReportData(paragraphs)
    /\ \/ FormattingSuccess(report_data')
       \/ FormattingFailure(report_data')
    /\ UNCHANGED << MAX_REFLECTIONS, paragraphs, report_title, paragraph_index,
                    reflection_i, search_tool, adapter_call, search_response,
                    save_report, report_file, state_file, returned >>
    /\ UNCHANGED << dispatchVars, multimodalVars, toolVars >>

\* if save_report: ... else return final_report
SaveCheck ==
    /\ pc = "save_check"
    /\ \E requested \in {"True", "False"} :
         /\ save_report' = requested
         /\ IF requested = "True"
            THEN pc' = "save_report" /\ UNCHANGED returned
            ELSE Return
    /\ UNCHANGED << MAX_REFLECTIONS, paragraphs, report_title, paragraph_index,
                    reflection_i, search_tool, adapter_call, search_response,
                    report_data, formatter_calls, final_report, is_completed,
                    report_file, state_file, raised >>
    /\ UNCHANGED << dispatchVars, multimodalVars, toolVars >>

\* a report file that open() created and write() did not fill
Truncated == << "truncated" >>

\* _save_report: open(filepath, 'w') and f.write(report_content)
SaveReportFile ==
    /\ pc = "save_report"
    /\ \/ /\ report_file' = final_report
          /\ pc' = "save_state"
          /\ UNCHANGED raised
       \/ /\ report_file' \in {Empty, Truncated}
          /\ Raise("save_report")
    /\ UNCHANGED << MAX_REFLECTIONS, paragraphs, report_title, paragraph_index,
                    reflection_i, search_tool, adapter_call, search_response,
                    report_data, formatter_calls, final_report, is_completed,
                    save_report, state_file, returned >>
    /\ UNCHANGED << dispatchVars, multimodalVars, toolVars >>

\* self.state of the research agent
AgentState ==
    [report_title |-> report_title, paragraphs |-> paragraphs,
     final_report |-> final_report, is_completed |-> is_completed]

\* State.save_to_file: the JSON document of a state, an object as the list
\* of its members, a list as a list, a flag as true or false
SaveToFile(state) ==
    LET Flag(b) == IF b THEN "true" ELSE "false"
        Search(s) ==
            << << "query", s.query >>, << "tool", s.tool >>, << "results", s.results >> >>
        Paragraph(p) ==
            << << "title", p.title >>,
               << "search_history",
                  [k \in 1..Len(p.search_history) |-> Search(p.search_history[k])] >>,
               << "summaries", p.summaries >>,
               << "latest_summary", p.latest_summary >>,
               << "completed", Flag(p.completed) >> >>
    IN  << << "report_title", state.report_title >>,
           << "paragraphs",
              [k \in 1..Len(state.paragraphs) |-> Paragraph(state.paragraphs[k])] >>,
           << "final_report", state.final_report >>,
           << "is_completed", Flag(state.is_completed) >> >>

\* State.load_from_file: the state a JSON document describes
LoadFromFile(file) ==
    LET Member(object, key) ==
            object[CHOOSE k \in 1..Len(object) : object[k][1] = key][2]
        Flag(text) == text = "true"
        Search(s) ==
            [query |-> Member(s, "query"), tool |-> Member(s, "tool"),
             results |-> Member(s, "results")]
        Paragraph(p) ==
            [title |-> Member(p, "title"),
             search_history |->
                [k \in 1..Len(Member(p, "search_history")) |->
                    Search(Member(p, "search_history")[k])],
             summaries |-> Member(p, "summaries"),
             latest_summary |-> Member(p, "latest_summary"),
             completed |-> Flag(Member(p, "completed"))]
    IN  [report_title |-> Member(file, "report_title"),
         paragraphs |->
            [k \in 1..Len(Member(file, "paragraphs")) |->
                Paragraph(Member(file, "paragraphs")[k])],
         final_report |-> Member(file, "final_report"),
         is_completed |-> Flag(Member(file, "is_completed"))]

\* _save_report: if self.config.SAVE_INTERMEDIATE_STATES: save_to_file; then
\* the return of research()
SaveStateFile ==
    /\ pc = "save_state"
    /\ \/ /\ Return
          /\ UNCHANGED << state_file, raised >>
       \/ /\ state_file' = SaveToFile(AgentState)
          /\ Return
          /\ UNCHANGED raised
       \/ /\ Raise("save_state")
          /\ UNCHANGED << state_file, returned >>
    /\ UNCHANGED << MAX_REFLECTIONS, paragraphs, report_title, paragraph_index,
                    reflection_i, search_tool, adapter_call, search_response,
                    report_data, formatter_calls, final_report, is_completed,
                    save_report, report_file >>
    /\ UNCHANGED << dispatchVars, multimodalVars, toolVars >>

\* save_state(filepath) on the agent after research() returned
SaveState ==
    /\ pc = "done"
    /\ state_file' = SaveToFile(AgentState)
    /\ pc' = "state_saved"
    /\ UNCHANGED << MAX_REFLECTIONS, paragraphs, report_title, paragraph_index,
                    reflection_i, search_tool, adapter_call, search_response,
                    report_data, formatter_calls, final_report, is_completed,
                    save_report, report_file, returned, raised >>
    /\ UNCHANGED << dispatchVars, multimodalVars, toolVars >>

\* a slip: the loaded paragraphs come without their search history
LoadStateWithoutHistory ==
    /\ pc = "state_saved"
    /\ loaded_state' =
          [LoadFromFile(state_file) EXCEPT !.paragraphs =
              [k \in 1..Len(@) |-> [@[k] EXCEPT !.search_history = << >>]]]
    /\ pc' = "state_loaded"
    /\ UNCHANGED << MAX_REFLECTIONS, paragraphs, report_title, paragraph_index,
                    reflection_i, search_tool, adapter_call, search_response,
                    report_data, formatter_calls, final_report, is_completed,
                    save_report, report_file, state_file, returned, raised >>
    /\ UNCHANGED << dispatchVars, multimodalVars, constructVars, topicVars,
                    probeVars, cacheVars, repairVars, hostVars >>

\* load_state(filepath) on a second agent: self.state = State.load_from_file
LoadState ==
    /\ pc = "state_saved"
    /\ loaded_state' = LoadFromFile(state_file)
    /\ pc' = "state_loaded"
    /\ UNCHANGED << MAX_REFLECTIONS, paragraphs, report_title, paragraph_index,
                    reflection_i, search_tool, adapter_call, search_response,
                    report_data, formatter_calls, final_report, is_completed,
                    save_report, report_file, state_file, returned, raised >>
    /\ UNCHANGED << dispatchVars, multimodalVars, constructVars, topicVars,
                    probeVars, cacheVars, repairVars, hostVars >>

\* the other entry points are not called during a research run
DispatchIdle ==
    /\ tool_name = None
    /\ query = Empty
    /\ kwargs = NoKwargs
    /\ dispatched = NoCall

MultimodalIdle ==
    /\ media_data = << >>
    /\ text_context = << >>
    /\ media_analysis = << >>

\* a row without columns
NoRow == [k \in {} |-> ""]

\* no call of _construct_url_smart was made
ConstructIdle ==
    /\ platform = None
    /\ row = NoRow
    /\ constructed = None

\* no call of search_topic_globally was made
TopicIdle ==
    /\ tables = << >>
    /\ topic = None
    /\ limit_per_table = 0
    /\ lookups = << >>
    /\ all_results = << >>
    /\ failing = {}

\* the outcome of a request that was not issued
NoOutcome == [issued |-> FALSE]

\* no call of _is_url_alive was made
ProbeIdle ==
    /\ url = None
    /\ head_outcome = NoOutcome
    /\ get_outcome = NoOutcome
    /\ requests = << >>
    /\ alive = None

\* a dict without keys
NoEntries == [k \in {} |-> << >>]

\* no call of _get_table_columns was made in the process
CacheIdle ==
    /\ table_columns_cache = NoEntries
    /\ column_queries = << >>
    /\ column_call = [queried |-> FALSE]

\* no second agent loaded a state
PersistIdle == loaded_state = << >>

\* no link repair agent was constructed
RepairIdle ==
    /\ db_tool = None
    /\ document = << >>
    /\ passes = << >>

\* no call was made on a forum host
HostIdle ==
    /\ forum_logs = << >>
    /\ opinions = << >>
    /\ host_env = [response |-> [success |-> FALSE, error |-> "unavailable"],
                   raising |-> None]
    /\ host_call = [method |-> "none"]

\* the entry points added to the first ones, before any call
LaterIdle == CacheIdle /\ PersistIdle /\ RepairIdle /\ HostIdle

\* the content store client and the link repair agent before any call
ToolsIdle == ConstructIdle /\ TopicIdle /\ ProbeIdle /\ LaterIdle

Init == ResearchInit /\ DispatchIdle /\ MultimodalIdle /\ ToolsIdle

Next ==
    \/ GenerateReportStructure
    \/ ProcessParagraphs
    \/ FirstSearch
    \/ FirstExecute
    \/ FirstSummary
    \/ ReflectionLoop
    \/ Reflection
    \/ ReflectionExecute
    \/ ReflectionSummary
    \/ MarkParagraphCompleted
    \/ GenerateFinalReport
    \/ SaveCheck
    \/ SaveReportFile
    \/ SaveStateFile
    \/ SaveState
    \/ LoadState

Spec == Init /\ [][Next]_vars

----------------------------------------------------------------------------
(* execute_search_tool called on a constructed agent *)

\* the tool names tried: the five tools, an unknown name, an absent name
TriedTools == ToolNames \cup { "deep_search", None }

\* the **kwargs tried
TriedKwargs == { NoKwargs, [max_results |-> 1], [max_results |-> 20] }

DispatchInit ==
    /\ tool_name \in TriedTools
    /\ query \in { << "query", 1 >>, << "query", 2 >> }
    /\ kwargs \in TriedKwargs
    /\ dispatched = NoCall

\* execute_search_tool(tool_name, query, **kwargs)
DirectCall ==
    /\ pc = "constructed"
    /\ dispatched' = ExecuteSearchTool(tool_name, query, kwargs)
    /\ pc' = "direct_call_done"
    /\ UNCHANGED << tool_name, query, kwargs >>
    /\ UNCHANGED << MAX_REFLECTIONS, paragraphs, report_title, paragraph_index,
                    reflection_i, search_tool, adapter_call, search_response,
                    report_data, formatter_calls, final_report, is_completed,
                    save_report, report_file, state_file, returned, raised >>
    /\ UNCHANGED << multimodalVars, toolVars >>

\* the call a round makes for the planning output tool_name: the default
\* tool, search_kwargs, then execute_search_tool
RoundCall ==
    /\ pc = "constructed"
    /\ search_tool' = GetSearchTool(tool_name)
    /\ dispatched' = ExecuteSearchTool(search_tool', query, SearchKwargs(search_tool'))
    /\ pc' = "round_call_done"
    /\ UNCHANGED << tool_name, query, kwargs >>
    /\ UNCHANGED << MAX_REFLECTIONS, paragraphs, report_title, paragraph_index,
                    reflection_i, adapter_call, search_response,
                    report_data, formatter_calls, final_report, is_completed,
                    save_report, report_file, state_file, returned, raised >>
    /\ UNCHANGED << multimodalVars, toolVars >>

\* the responses the adapter may give to the call of a round: None, or a
\* BochaResponse of up to MaxWebpages webpages
RoundResponses == { NoneResponse } \cup { Response(n) : n \in 0..MaxWebpages }

\* the rest of the search of a round: the conversion of the response and
\* add_search_results on the paragraph of the round; search_results is the
\* list the summary input is built from
RoundRecord ==
    /\ pc = "round_call_done"
    /\ \E response \in RoundResponses :
         /\ search_response' = response
         /\ paragraphs' = AddSearchResults(<< NewParagraph(1) >>, 1, query,
                                           RoundResults(response), search_tool)
    /\ pc' = "round_recorded"
    /\ UNCHANGED << tool_name, query, kwargs, dispatched >>
    /\ UNCHANGED << MAX_REFLECTIONS, report_title, paragraph_index,
                    reflection_i, search_tool, adapter_call,
                    report_data, formatter_calls, final_report, is_completed,
                    save_report, report_file, state_file, returned, raised >>
    /\ UNCHANGED << multimodalVars, toolVars >>

\* a constructed agent on which research() is not running
ResearchIdle ==
    /\ pc = "constructed"
    /\ MAX_REFLECTIONS = 0
    /\ paragraphs = << >>
    /\ report_title = Empty
    /\ paragraph_index = 0
    /\ reflection_i = 0
    /\ search_tool = None
    /\ adapter_call = NoCall
    /\ search_response = NoResponse
    /\ report_data = << >>
    /\ formatter_calls = << >>
    /\ final_report = Empty
    /\ is_completed = FALSE
    /\ save_report = None
    /\ report_file = Empty
    /\ state_file = Empty
    /\ returned = Empty
    /\ raised = None

DispatchNext == DirectCall \/ RoundCall \/ RoundRecord

DispatchSpecInit == ResearchIdle /\ DispatchInit /\ MultimodalIdle /\ ToolsIdle

DispatchSpec == DispatchSpecInit /\ [][DispatchNext]_vars

----------------------------------------------------------------------------
(* analyze_multimodal called on a constructed agent *)

\* the sequences of at most n elements of S
SeqUpTo(S, n) == UNION { [1..m -> S] : m \in 0..n }

\* the keywords a media item may carry
MediaKeywords == { << "k" >>, << "K" >>, << "de" >> }

\* the media items tried: with and without extracted keywords
MediaItems ==
    { [type |-> "image"] } \cup
    { [type |-> "image", extracted_keywords |-> kws] :
        kws \in SeqUpTo(MediaKeywords, MaxKeywords) }

MultimodalInit ==
    /\ media_data \in MediaItems
    /\ text_context \in SeqUpTo(Alphabet, MaxTextLen)
    /\ media_analysis = << >>

\* a call of analyze_multimodal on a constructed agent
AnalyzeMultimodalCall ==
    /\ pc = "constructed"
    /\ media_analysis' = AnalyzeMultimodal(media_data, text_context)
    /\ pc' = "analyzed"
    /\ UNCHANGED << media_data, text_context >>
    /\ UNCHANGED << MAX_REFLECTIONS, paragraphs, report_title, paragraph_index,
                    reflection_i, search_tool, adapter_call, search_response,
                    report_data, formatter_calls, final_report, is_completed,
                    save_report, report_file, state_file, returned, raised >>
    /\ UNCHANGED << dispatchVars, toolVars >>

MultimodalNext == AnalyzeMultimodalCall

MultimodalSpecInit == ResearchIdle /\ DispatchIdle /\ MultimodalInit /\ ToolsIdle

MultimodalSpec == MultimodalSpecInit /\ [][MultimodalNext]_vars

----------------------------------------------------------------------------
(* Properties of the research run *)

\* the stages of research() after _process_paragraphs returned
AfterParagraphs == { "final_report", "save_check", "save_report", "save_state", "done" }

\* the stages of one paragraph's rounds
RoundStages ==
    { "first_search", "first_execute", "first_summary", "reflection_loop",
      "reflection", "reflection_execute", "reflection_summary", "mark_completed" }

\* the stages right after a round's search record was appended
SummaryStages == { "first_summary", "reflection_summary" }

\* C1: every completed paragraph has exactly 1 + MAX_REFLECTIONS search
\* records, and in a run that returned every paragraph is completed with
\* exactly 1 + MAX_REFLECTIONS search records, whatever the searches found
C1_HistoryLength ==
    /\ \A k \in 1..Len(paragraphs) :
         paragraphs[k].completed =>
            Len(paragraphs[k].search_history) = 1 + MAX_REFLECTIONS
    /\ pc = "done" =>
         \A k \in 1..Len(paragraphs) :
            /\ paragraphs[k].completed
            /\ Len(paragraphs[k].search_history) = 1 + MAX_REFLECTIONS

\* a run of two paragraphs and two reflections returned although the first
\* reflection of the first paragraph found nothing
C1_Witness ==
    /\ pc = "done"
    /\ Len(paragraphs) = 2
    /\ MAX_REFLECTIONS = 2
    /\ paragraphs[1].search_history[2].results = << >>
    /\ paragraphs[2].search_history[1].results # << >>

\* C2: the entries handed to the formatting collaborator and to the manual
\* formatter, and the sections of a manually formatted report, are the
\* (title, latest summary) pairs of the paragraphs in structure order, none
\* dropped, duplicated or reordered
C2_ReportOrder ==
    /\ \A k \in 1..Len(paragraphs) : paragraphs[k].title = << "title", k >>
    /\ \A c \in 1..Len(formatter_calls) :
         /\ Len(formatter_calls[c].data) = Len(paragraphs)
         /\ \A k \in 1..Len(paragraphs) :
              /\ formatter_calls[c].data[k].title = << "title", k >>
              /\ formatter_calls[c].data[k].paragraph_latest_state
                    = << "summary", k - 1, MAX_REFLECTIONS >>
              /\ formatter_calls[c].data[k].paragraph_latest_state
                    = paragraphs[k].latest_summary
    /\ (final_report # Empty /\ final_report[1] = "manual") =>
         /\ Len(final_report[3]) = Len(paragraphs)
         /\ \A k \in 1..Len(paragraphs) :
              final_report[3][k] =
                 << "## ", << "title", k >>, "\n", paragraphs[k].latest_summary >>

\* a run of two paragraphs returned a manually formatted report
C2_Witness ==
    /\ pc = "done"
    /\ Len(paragraphs) = 2
    /\ MAX_REFLECTIONS = 1
    /\ Len(formatter_calls) = 2

\* what holds once the planning or the summarization collaborator raised
C3_Aborted ==
    raised \in { "plan", "summarize" } =>
        /\ pc = "error"
        /\ formatter_calls = << >>
        /\ final_report = Empty
        /\ is_completed = FALSE
        /\ returned = Empty
        /\ report_file = Empty
        /\ ~Current.completed
        /\ \A k \in (paragraph_index + 2)..Len(paragraphs) :
             /\ paragraphs[k].search_history = << >>
             /\ paragraphs[k].summaries = << >>

\* C3: once the planning or the summarization collaborator raised in any
\* round, research() has ended with that error: formatting is not invoked,
\* no final report is set or returned, no later paragraph was touched, and
\* the run takes no further step
C3_FailFast == [](C3_Aborted) /\ [][pc # "error"]_vars

\* the summarization collaborator raised in the first reflection round of
\* the first of two paragraphs
C3_Witness ==
    /\ raised = "summarize"
    /\ Len(paragraphs) = 2
    /\ paragraph_index = 0
    /\ Len(paragraphs[1].search_history) = 2
    /\ Len(paragraphs[1].summaries) = 1

\* C4: a failure of the formatting collaborator is never the error of the
\* run: the manual formatter is called with the same report_data, its
\* report over the paragraphs in order becomes the final report, the state
\* is marked completed, and a run that returns returns that report and has
\* saved it when saving was requested; every failure of another stage is
\* the error of the run
C4_FormattingRecovered ==
    /\ raised # "format"
    /\ Len(formatter_calls) = 2 =>
         /\ formatter_calls[2].method = "format_report_manually"
         /\ formatter_calls[2].data = formatter_calls[1].data
         /\ final_report = ManualFormat(formatter_calls[1].data, report_title)
         /\ Len(final_report[3]) = Len(paragraphs)
         /\ \A k \in 1..Len(paragraphs) :
              final_report[3][k] =
                 << "## ", paragraphs[k].title, "\n", paragraphs[k].latest_summary >>
         /\ is_completed
         /\ pc \in { "save_check", "save_report", "save_state", "done", "error",
                     "state_saved", "state_loaded" }
         /\ pc = "error" => raised \in { "save_report", "save_state" }
         /\ pc \in { "done", "state_saved", "state_loaded" } =>
              /\ returned = final_report
              /\ save_report = "True" => report_file = final_report
    /\ raised # None <=> pc = "error"
    /\ pc = "error" => returned = Empty

\* the formatting collaborator failed in a run of two paragraphs, and the
\* run returned and saved the manual report
C4_Witness ==
    /\ pc = "done"
    /\ Len(paragraphs) = 2
    /\ Len(formatter_calls) = 2
    /\ save_report = "True"
    /\ report_file = final_report
    /\ returned # Empty

\* C5: a run of research(save_report=True) that ended in an error has
\* written no report file
C5_NoReportFileOnError ==
    (pc = "error" /\ save_report = "True") => report_file = Empty

\* C6: a structure of zero paragraphs makes the run fail: no final report
\* is produced and research() does not return
C6_EmptyStructureFails ==
    (pc # "constructed" /\ Len(paragraphs) = 0) =>
        /\ final_report = Empty
        /\ pc # "done"

\* the order of the stages, as a state predicate
C7_StageOrder ==
    /\ pc = "constructed" => paragraphs = << >>
    /\ pc \in RoundStages =>
         /\ paragraph_index < Len(paragraphs)
         /\ ~Current.completed
    /\ pc \in RoundStages \cup { "process_paragraphs" } =>
         /\ \A k \in 1..Len(paragraphs) :
              /\ k <= paragraph_index =>
                   /\ paragraphs[k].completed
                   /\ Len(paragraphs[k].search_history) = 1 + MAX_REFLECTIONS
                   /\ Len(paragraphs[k].summaries) = 1 + MAX_REFLECTIONS
              /\ k > paragraph_index + 1 =>
                   /\ ~paragraphs[k].completed
                   /\ paragraphs[k].search_history = << >>
                   /\ paragraphs[k].summaries = << >>
         /\ formatter_calls = << >>
         /\ final_report = Empty
         /\ ~is_completed
    /\ pc = "mark_completed" =>
         Len(Current.search_history) = 1 + MAX_REFLECTIONS
    /\ (pc \in AfterParagraphs \/ formatter_calls # << >>) =>
         \A k \in 1..Len(paragraphs) : paragraphs[k].completed
    /\ is_completed => (final_report # Empty /\ formatter_calls # << >>)
    /\ pc = "done" => (is_completed /\ returned = final_report)

\* the completed flags never revert, and a step completes only the current
\* paragraph
C7_CompletedOnce ==
    /\ Len(paragraphs) > 0 => Len(paragraphs') = Len(paragraphs)
    /\ \A k \in 1..Len(paragraphs) :
         /\ paragraphs[k].completed => paragraphs'[k].completed
         /\ (~paragraphs[k].completed /\ paragraphs'[k].completed) =>
               (pc = "mark_completed" /\ k = paragraph_index + 1)

\* C7: the stages run in the order structure, paragraphs 0..n-1 one at a
\* time, formatting, completed: a round of a paragraph runs only when all
\* paragraphs before it are completed with all their rounds and no later
\* one was touched, formatting runs only when every paragraph is
\* completed, the run is completed only with the final report set, and a
\* paragraph's completed flag is set once and never reverts
C7_Stages == [](C7_StageOrder) /\ [][C7_CompletedOnce]_vars

\* the second paragraph's first search is about to run after the first
\* paragraph finished its three rounds
C7_Witness ==
    /\ pc = "first_execute"
    /\ paragraph_index = 1
    /\ MAX_REFLECTIONS = 2
    /\ paragraphs[1].completed

\* C8: a round whose search returned no webpage (None or an empty list)
\* appends a search record with an empty result list and goes on to the
\* summarization, the run does not end in an error of the search, and a
\* paragraph all of whose rounds found nothing is still completed
C8_EmptyResults ==
    /\ raised \notin { "search" }
    /\ pc \in SummaryStages =>
         /\ Len(Current.search_history) = Len(Current.summaries) + 1
         /\ ~HasWebpages(search_response) =>
               Current.search_history[Len(Current.search_history)].results = << >>
    /\ pc \in AfterParagraphs =>
         \A k \in 1..Len(paragraphs) :
            /\ paragraphs[k].completed
            /\ Len(paragraphs[k].summaries) = Len(paragraphs[k].search_history)

\* a run returned whose two paragraphs found nothing in any of their three
\* rounds, the last search returning None
C8_Witness ==
    /\ pc = "done"
    /\ Len(paragraphs) = 2
    /\ MAX_REFLECTIONS = 2
    /\ search_response = NoneResponse
    /\ \A k \in 1..2 :
         /\ paragraphs[k].completed
         /\ \A r \in 1..3 : paragraphs[k].search_history[r].results = << >>

----------------------------------------------------------------------------
(* Properties of the tool dispatch *)

\* the tools that take a result count
CountTools == { "comprehensive_search", "web_search_only" }

\* the adapter call that is right for a tool name
C9_Routed(name, call) ==
    /\ name \in ToolNames => call.method = name
    /\ name \notin ToolNames => call.method = "comprehensive_search"
    /\ call.method \in ToolNames
    /\ call.args[1] = query
    /\ Len(call.args) \in { 1, 2 }
    /\ Len(call.args) = 2 => call.method \in CountTools
    /\ call.method \notin CountTools => call.args = << query >>

\* C9: each of the five tool names invokes the adapter call of the same
\* name, any other name invokes comprehensive_search and is no error, and a
\* result count is passed only to comprehensive_search and web_search_only,
\* never to the other three, whatever **kwargs holds; a round passes the
\* count 10 to those two tools
C9_Dispatch ==
    /\ pc = "direct_call_done" =>
         /\ C9_Routed(tool_name, dispatched)
         /\ (tool_name \in CountTools /\ "max_results" \in DOMAIN kwargs) =>
               dispatched.args = << query, kwargs.max_results >>
    /\ pc = "round_call_done" =>
         /\ C9_Routed(IF tool_name = None THEN "comprehensive_search" ELSE tool_name,
                      dispatched)
         /\ (tool_name \in CountTools \cup { None }) =>
               dispatched.args = << query, 10 >>

\* an unknown tool name given with a result count was routed to
\* comprehensive_search, without the count
C9_Witness ==
    /\ pc = "direct_call_done"
    /\ tool_name = "deep_search"
    /\ "max_results" \in DOMAIN kwargs
    /\ dispatched = AdapterCall("comprehensive_search", << query >>)

\* the record the round of DispatchSpec appended
RoundRecorded == paragraphs[1].search_history[1]

\* C30: the results a round records, the list its summary input is built
\* from, are the conversions of the first min(n, 10) webpages of the n the
\* adapter returned, in adapter order, and never more than 10, whichever
\* tool the round selected
C30_ResultsCapped ==
    pc = "round_recorded" =>
        LET results == RoundRecorded.results
            n == IF HasWebpages(search_response)
                 THEN Len(search_response.webpages) ELSE 0
        IN  /\ Len(paragraphs) = 1 /\ Len(paragraphs[1].search_history) = 1
            /\ RoundRecorded.tool = search_tool
            /\ Len(results) <= 10
            /\ Len(results) = (IF n < 10 THEN n ELSE 10)
            /\ \A k \in 1..Len(results) :
                 results[k].title = search_response.webpages[k].name

\* a round of a tool without result count got more than 10 webpages and
\* recorded 10
C30_Witness ==
    /\ pc = "round_recorded"
    /\ dispatched.method = "search_last_week"
    /\ Len(search_response.webpages) > 10
    /\ Len(RoundRecorded.results) = 10

----------------------------------------------------------------------------
(* Properties of the multimodal analysis *)

\* C10: the confidence analyze_multimodal returns is exactly 1.0 when no
\* conflict was flagged and exactly 0.5 when one was, however many media
\* keywords conflict with the text, so it lies in [0, 1]
C10_Confidence ==
    pc = "analyzed" =>
        /\ media_analysis.confidence \in
              { [num |-> 1, den |-> 1], [num |-> 1, den |-> 2] }
        /\ 0 <= media_analysis.confidence.num
        /\ media_analysis.confidence.num <= media_analysis.confidence.den
        /\ media_analysis.confidence = [num |-> 1, den |-> 2]
              <=> "conflict_note" \in DOMAIN media_analysis

\* two different media keywords conflict with the text and the confidence
\* is 0.5
C10_Witness ==
    /\ pc = "analyzed"
    /\ media_data = [type |-> "image", extracted_keywords |-> << << "k" >>, << "de" >> >>]
    /\ text_context = << "bu", "k", "sp", "wu", "de" >>
    /\ media_analysis.confidence = [num |-> 1, den |-> 2]
    /\ media_analysis.conflict_note[2][2] = << << "k" >>, << "de" >> >>

----------------------------------------------------------------------------
(* Properties of the conflict check *)

\* the tokens of the text as it is written (re.findall without lower()),
\* stop words dropped
LiteralTokens(text) ==
    IF text = << >> THEN << >> ELSE SelectSeq(FindWords(text, << >>), NotStopWord)

\* C11: analyze_multimodal flags a conflict exactly when the text holds, for
\* some media keyword k, the literal token "bu"+k or "wu"+k; the conflict
\* note and the caution prefix of the conclusion are set exactly on a
\* conflict; the call leaves its inputs and the agent's state alone
C11_ConflictExactly ==
    pc = "analyzed" =>
        LET keywords == MediaGet(media_data, "extracted_keywords", << >>)
            tokens   == Range(LiteralTokens(text_context))
            negated  == \E n \in 1..Len(keywords) :
                            \/ (<< "bu" >> \o keywords[n]) \in tokens
                            \/ (<< "wu" >> \o keywords[n]) \in tokens
            flagged  == "conflict_note" \in DOMAIN media_analysis
        IN  /\ flagged <=> negated
            /\ flagged <=> Head(media_analysis.final_conclusion) = "caution"
            /\ paragraphs = << >> /\ final_report = Empty /\ ~is_completed

----------------------------------------------------------------------------
(* Strings, as Python's str operations treat them *)

\* s.startswith(prefix)
StartsWith(s, prefix) ==
    Len(s) >= Len(prefix) /\ SubSeq(s, 1, Len(prefix)) = prefix

\* sub in s
Contains(s, sub) ==
    \E n \in 1..(Len(s) - Len(sub) + 1) : SubSeq(s, n, n + Len(sub) - 1) = sub

\* s.strip(), for the whitespace the model's strings hold (the space)
RECURSIVE Strip(_)
Strip(s) ==
    IF s = "" THEN ""
    ELSE IF Head(s) = " " THEN Strip(Tail(s))
    ELSE IF SubSeq(s, Len(s), Len(s)) = " " THEN Strip(SubSeq(s, 1, Len(s) - 1))
    ELSE s

\* s.isdigit()
IsDigit(s) ==
    /\ s # ""
    /\ \A n \in 1..Len(s) :
          SubSeq(s, n, n) \in { "0", "1", "2", "3", "4", "5", "6", "7", "8", "9" }

\* s.lower(), for ASCII letters
RECURSIVE StrLower(_)
StrLower(s) ==
    LET upper == "ABCDEFGHIJKLMNOPQRSTUVWXYZ"
        lower == "abcdefghijklmnopqrstuvwxyz"
        LowerOf(ch) ==
            IF \E n \in 1..26 : SubSeq(upper, n, n) = ch
            THEN LET n == CHOOSE n \in 1..26 : SubSeq(upper, n, n) = ch
                 IN  SubSeq(lower, n, n)
            ELSE ch
    IN  IF s = "" THEN "" ELSE LowerOf(Head(s)) \o StrLower(Tail(s))

----------------------------------------------------------------------------
(* _construct_url_smart *)

\* row.get(key): a column that is absent or NULL reads as None, which the
\* code only tests for truth, as it does the empty string
RowGet(r, key) == IF key \in DOMAIN r THEN r[key] ELSE ""

\* a row that is no mapping (None): row.get raises AttributeError
NotADict == [not_a_dict |-> "NoneType"]

IsNoMapping(r) == "not_a_dict" \in DOMAIN r

\* the string returned for every xhs row, transliterated
XhsPlaceholder == "(qing zai xiaohongshu App chakan)"

\* a slip: a numeric id is used as it is, without the av prefix
BilibiliUrlNoPrefix(r) ==
    LET video_id == RowGet(r, "video_id")
        vid == Strip(IF video_id # "" THEN video_id ELSE RowGet(r, "bvid"))
    IN  IF vid = "" THEN "" ELSE "https://www.bilibili.com/video/" \o vid

\* the bilibili branch
BilibiliUrl(r) ==
    LET video_id == RowGet(r, "video_id")
        vid == Strip(IF video_id # "" THEN video_id ELSE RowGet(r, "bvid"))
    IN  IF vid = "" THEN ""
        ELSE IF StartsWith(vid, "BV") THEN "https://www.bilibili.com/video/" \o vid
        ELSE IF StartsWith(StrLower(vid), "av") THEN "https://www.bilibili.com/video/" \o vid
        ELSE IF IsDigit(vid) THEN "https://www.bilibili.com/video/av" \o vid
        ELSE "https://www.bilibili.com/video/" \o vid

\* a slip: with both ids only the question is linked
ZhihuUrlQuestionOnly(r) ==
    LET q_id == RowGet(r, "question_id")
        a_id == RowGet(r, "content_id")
    IN  IF q_id # "" THEN "https://www.zhihu.com/question/" \o q_id
        ELSE IF a_id # "" THEN "https://www.zhihu.com/question/" \o a_id
        ELSE ""

\* the zhihu branch
ZhihuUrl(r) ==
    LET q_id == RowGet(r, "question_id")
        a_id == RowGet(r, "content_id")
    IN  IF q_id # "" /\ a_id # ""
        THEN "https://www.zhihu.com/question/" \o q_id \o "/answer/" \o a_id
        ELSE IF q_id # "" THEN "https://www.zhihu.com/question/" \o q_id
        ELSE IF a_id # "" THEN "https://www.zhihu.com/question/" \o a_id
        ELSE ""

\* a slip: mblogid is preferred to note_id
WeiboUrlShortIdFirst(r) ==
    IF RowGet(r, "mblogid") # ""
    THEN "https://weibo.com/detail/" \o RowGet(r, "mblogid")
    ELSE IF RowGet(r, "note_id") # ""
    THEN "https://m.weibo.cn/detail/" \o RowGet(r, "note_id")
    ELSE ""

\* the weibo branch
WeiboUrl(r) ==
    IF RowGet(r, "note_id") # ""
    THEN "https://m.weibo.cn/detail/" \o RowGet(r, "note_id")
    ELSE IF RowGet(r, "mblogid") # ""
    THEN "https://weibo.com/detail/" \o RowGet(r, "mblogid")
    ELSE ""

\* generated_url after the platform branches (xhs returns before this point)
GeneratedUrl(p, r) ==
    CASE p = "bilibili" -> BilibiliUrl(r)
      [] p = "douyin" ->
            IF RowGet(r, "aweme_id") # ""
            THEN "https://www.douyin.com/video/" \o RowGet(r, "aweme_id") ELSE ""
      [] p = "zhihu" -> ZhihuUrl(r)
      [] p = "kuaishou" ->
            IF RowGet(r, "video_id") # ""
            THEN "https://www.kuaishou.com/short-video/" \o RowGet(r, "video_id") ELSE ""
      [] p = "tieba" ->
            LET note_id == IF RowGet(r, "note_id") # ""
                           THEN RowGet(r, "note_id") ELSE RowGet(r, "thread_id")
            IN  IF note_id # "" THEN "https://tieba.baidu.com/p/" \o note_id ELSE ""
      [] p = "weibo" -> WeiboUrl(r)
      [] OTHER -> ""

\* the raw URL columns, in the order the fallback reads them
UrlColumns == << "parent_url", "video_url", "note_url", "aweme_url", "content_url", "url" >>

\* a slip: the fallback goes on to later columns until one holds a value
\* that is long enough
DbUrlFirstLongEnough(r) ==
    LET held == { n \in 1..Len(UrlColumns) : Len(RowGet(r, UrlColumns[n])) > 20 }
    IN  IF held = {} THEN ""
        ELSE RowGet(r, UrlColumns[CHOOSE n \in held : \A m \in held : n <= m])

\* db_url: the first raw URL column that holds a value
DbUrl(r) ==
    LET held == { n \in 1..Len(UrlColumns) : RowGet(r, UrlColumns[n]) # "" }
    IN  IF held = {} THEN ""
        ELSE RowGet(r, UrlColumns[CHOOSE n \in held : \A m \in held : n <= m])

\* a slip: the xhs branch sets generated_url instead of returning
ConstructUrlSmartXhsFallsThrough(p, r) ==
    LET generated_url == IF p = "xhs" THEN XhsPlaceholder ELSE GeneratedUrl(p, r)
        db_url == DbUrl(r)
    IN  IF generated_url # "" /\ Contains(generated_url, "http") THEN generated_url
        ELSE IF db_url # "" /\ Len(db_url) > 20 THEN Strip(db_url)
        ELSE ""

\* a slip: the exception of a row that is no mapping leaves the function
ConstructUrlSmartUncaught(p, r) ==
    IF p = "xhs" THEN XhsPlaceholder
    ELSE IF IsNoMapping(r) THEN "AttributeError"
    ELSE LET generated_url == GeneratedUrl(p, r)
             db_url == DbUrl(r)
         IN  IF generated_url # "" /\ Contains(generated_url, "http") THEN generated_url
             ELSE IF db_url # "" /\ Len(db_url) > 20 THEN Strip(db_url)
             ELSE ""

\* _construct_url_smart(platform, row); the first row.get of a row that is
\* no mapping raises inside the try, and the handler falls through to
\* return ""
ConstructUrlSmart(p, r) ==
    IF p = "xhs" THEN XhsPlaceholder
    ELSE IF IsNoMapping(r) THEN ""
    ELSE LET generated_url == GeneratedUrl(p, r)
             db_url == DbUrl(r)
         IN  IF generated_url # "" /\ Contains(generated_url, "http") THEN generated_url
             ELSE IF db_url # "" /\ Len(db_url) > 20 THEN Strip(db_url)
             ELSE ""

----------------------------------------------------------------------------
(* _construct_url_smart called on a content store client *)

\* largest number of columns a row holds a value in
MaxColumns == 2

\* the platforms tried: the seven platforms and the prefix of daily_news
Platforms == { "bilibili", "xhs", "douyin", "zhihu", "kuaishou", "tieba", "weibo", "daily" }

\* the id columns the branches read
IdColumns == { "video_id", "bvid", "aweme_id", "question_id", "content_id",
               "note_id", "thread_id", "mblogid" }

\* the rows tried: up to MaxColumns columns; video ids with the prefixes and
\* digits the bilibili branch tells apart, padded and blank; other ids; raw
\* URLs of 13, 20 and 21 characters, padded to 21, without scheme, and
\* empty; and a row that is no mapping
Rows ==
    LET VideoIds  == { "BV1xy", "AV17", "123456", "x1y", " 12 ", " ", "" }
        OtherIds  == { "55", "77", "" }
        UrlValues == { "http://a.cn/1", "https://a.cn/v/12345", "https://a.cn/v/123456",
                       " https://a.cn/v/1234 ", "//a.cn/video/av12345678", "" }
        Columns   == IdColumns \cup Range(UrlColumns)
        Values(c) == IF c \in { "video_id", "bvid" } THEN VideoIds
                     ELSE IF c \in IdColumns THEN OtherIds ELSE UrlValues
    IN  UNION { { r \in [cs -> VideoIds \cup OtherIds \cup UrlValues] :
                    \A c \in cs : r[c] \in Values(c) } :
                cs \in { cs \in SUBSET Columns : Cardinality(cs) <= MaxColumns } }
            \cup { NotADict }

ConstructInit ==
    /\ platform \in Platforms
    /\ row \in Rows
    /\ constructed = None

\* a call of _construct_url_smart(platform, row)
ConstructUrlSmartCall ==
    /\ pc = "constructed"
    /\ constructed' = ConstructUrlSmart(platform, row)
    /\ pc' = "url_constructed"
    /\ UNCHANGED << platform, row, topicVars, probeVars, cacheVars, repairVars,
                    loaded_state, hostVars >>
    /\ UNCHANGED << MAX_REFLECTIONS, paragraphs, report_title, paragraph_index,
                    reflection_i, search_tool, adapter_call, search_response,
                    report_data, formatter_calls, final_report, is_completed,
                    save_report, report_file, state_file, returned, raised >>
    /\ UNCHANGED << dispatchVars, multimodalVars >>

ConstructSpecInit ==
    ResearchIdle /\ DispatchIdle /\ MultimodalIdle /\ ConstructInit /\ TopicIdle /\ ProbeIdle
        /\ LaterIdle

ConstructSpec == ConstructSpecInit /\ [][ConstructUrlSmartCall]_vars

----------------------------------------------------------------------------
(* search_topic_globally *)

\* search_configs with join_map, in the order of the dict: the table, the
\* content type and, for a comment table, (parent_tbl, join_key, url_col)
SearchConfigs ==
    << [table |-> "bilibili_video", type |-> "video", join |-> << >>],
       [table |-> "bilibili_video_comment", type |-> "comment",
        join |-> << "bilibili_video", "video_id", "video_url" >>],
       [table |-> "douyin_aweme", type |-> "video", join |-> << >>],
       [table |-> "douyin_aweme_comment", type |-> "comment",
        join |-> << "douyin_aweme", "aweme_id", "aweme_url" >>],
       [table |-> "kuaishou_video", type |-> "video", join |-> << >>],
       [table |-> "kuaishou_video_comment", type |-> "comment",
        join |-> << "kuaishou_video", "video_id", "video_url" >>],
       [table |-> "xhs_note", type |-> "note", join |-> << >>],
       [table |-> "xhs_note_comment", type |-> "comment",
        join |-> << "xhs_note", "note_id", "note_url" >>],
       [table |-> "zhihu_content", type |-> "content", join |-> << >>],
       [table |-> "zhihu_comment", type |-> "comment",
        join |-> << "zhihu_content", "content_id", "content_url" >>],
       [table |-> "weibo_note", type |-> "note", join |-> << >>],
       [table |-> "weibo_note_comment", type |-> "comment",
        join |-> << "weibo_note", "note_id", "note_url" >>],
       [table |-> "daily_news", type |-> "news", join |-> << >>] >>

\* the content and comment tables of the store, as the configurations of
\* search_topic_by_date and get_comments_for_topic name them, and daily_news
KnownTables ==
    { SearchConfigs[n].table : n \in 1..Len(SearchConfigs) }
        \cup { "tieba_note", "tieba_comment" }

\* table.split('_')[0]
PlatformShort(table) ==
    LET n == CHOOSE n \in 1..(Len(table) + 1) :
                 /\ n = Len(table) + 1 \/ SubSeq(table, n, n) = "_"
                 /\ \A m \in 1..(n - 1) : SubSeq(table, m, m) # "_"
    IN  SubSeq(table, 1, n - 1)

\* the columns t1.* of a stored row: the id column of its table and, for a
\* content table, its raw URL column; a news row has a url column only
StoredColumns(table, key) ==
    LET n == CHOOSE n \in 1..Len(SearchConfigs) :
                 \/ SearchConfigs[n].table = table
                 \/ n = Len(SearchConfigs)
        children == { m \in 1..Len(SearchConfigs) :
                        /\ SearchConfigs[m].join # << >>
                        /\ SearchConfigs[m].join[1] = table }
    IN  IF key = "" THEN NoRow
        ELSE IF children # {}
        THEN LET join == SearchConfigs[CHOOSE m \in children : TRUE].join
             IN  (join[2] :> key) @@ (join[3] :> ("https://a.cn/v/1234" \o key))
        ELSE IF SearchConfigs[n].table = table /\ SearchConfigs[n].join # << >>
        THEN (SearchConfigs[n].join[2] :> key)
        ELSE ("url" :> ("https://news.cn/art/" \o key))

\* the concatenation of a list of lists
RECURSIVE Flatten(_)
Flatten(seqs) == IF seqs = << >> THEN << >> ELSE Head(seqs) \o Flatten(Tail(seqs))

\* the rows the WHERE, LEFT JOIN and ORDER BY t1.id DESC of the query give:
\* the rows of the table that match the term, latest id first, a comment row
\* once for each parent row with its join key (once with a NULL parent_url
\* when there is none)
JoinedDescending(store, config) ==
    LET rows == store[config.table]
        Joined(r) ==
            LET SameKey(parent) == parent.key # "" /\ parent.key = r.key
                parents == IF config.join = << >> THEN << >>
                           ELSE SelectSeq(store[config.join[1]], SameKey)
                columns == StoredColumns(config.table, r.key)
            IN  IF parents = << >>
                THEN << [id |-> r.id, inserted |-> r.inserted, columns |-> columns] >>
                ELSE [k \in 1..Len(parents) |->
                        [id |-> r.id, inserted |-> r.inserted,
                         columns |-> columns @@
                            ("parent_url" :>
                                StoredColumns(config.join[1], parents[k].key)[config.join[3]])]]
        matching == { k \in 1..Len(rows) : rows[k].matches }
    IN  Flatten([k \in 1..Len(rows) |->
                    IF (Len(rows) + 1 - k) \in matching
                    THEN Joined(rows[Len(rows) + 1 - k]) ELSE << >>])

\* a slip: the query carries no LIMIT
ExecuteQueryNoLimit(store, config, limit, raising) ==
    IF config.table \in raising THEN << >> ELSE JoinedDescending(store, config)

\* a slip: one failing query leaves every query of the search without rows
ExecuteQueryAllFail(store, config, limit, raising) ==
    LET ordered == JoinedDescending(store, config)
    IN  IF raising # {}
        THEN << >>
        ELSE SubSeq(ordered, 1, Min(limit, Len(ordered)))

\* _execute_query(query, param_dict) as the store answers it: the ordered
\* rows up to LIMIT :limit, and [] when fetch_all raises for the query
ExecuteQuery(store, config, limit, raising) ==
    LET ordered == JoinedDescending(store, config)
    IN  IF config.table \in raising
        THEN << >>
        ELSE SubSeq(ordered, 1, Min(limit, Len(ordered)))

\* the string stored when no URL could be constructed, transliterated
NoLinkMarker == "(wu youxiao laiyuan lianjie)"

\* a slip: the string of _construct_url_smart is stored as it is
ToQueryResultUnmarked(config, r) ==
    [platform |-> PlatformShort(config.table),
     content_type |-> config.type,
     url |-> ConstructUrlSmart(PlatformShort(config.table), r.columns),
     source_table |-> config.table,
     id |-> r.id,
     inserted |-> r.inserted]

\* the QueryResult appended for a row (with the row's id and insertion
\* stamp, which the properties read)
ToQueryResult(config, r) ==
    LET platform_short == PlatformShort(config.table)
        content_url == ConstructUrlSmart(platform_short, r.columns)
    IN  [platform |-> platform_short,
         content_type |-> config.type,
         url |-> IF content_url = "" THEN NoLinkMarker ELSE content_url,
         source_table |-> config.table,
         id |-> r.id,
         inserted |-> r.inserted]

\* search_topic_globally(topic, limit_per_table): the queries executed and
\* all_results
SearchTopicGlobally(store, term, limit, raising) ==
    [lookups |-> [n \in 1..Len(SearchConfigs) |->
                    [table |-> SearchConfigs[n].table, join |-> SearchConfigs[n].join,
                     term |-> "%" \o term \o "%", limit |-> limit]],
     results |-> Flatten([n \in 1..Len(SearchConfigs) |->
                    LET raw_results == ExecuteQuery(store, SearchConfigs[n], limit, raising)
                    IN  [k \in 1..Len(raw_results) |->
                            ToQueryResult(SearchConfigs[n], raw_results[k])]])]

----------------------------------------------------------------------------
(* search_topic_globally called on a content store client *)

\* largest number of rows the store holds
MaxRows == 2

\* largest limit_per_table tried
MaxLimit == 2

\* the tables that hold rows
StoredTables ==
    { "bilibili_video", "bilibili_video_comment", "weibo_note", "xhs_note", "daily_news",
      "tieba_note" }

\* the store after the insertions ins: each row has the id of its table's
\* counter and the stamp of its insertion
StoreOf(ins) ==
    [t \in KnownTables |->
        LET mine == SelectSeq([k \in 1..Len(ins) |-> k], LAMBDA k : ins[k].table = t)
        IN  [n \in 1..Len(mine) |->
                [id |-> n, inserted |-> mine[n],
                 matches |-> ins[mine[n]].matches, key |-> ins[mine[n]].key]]]

\* the stores tried: up to MaxRows insertions, of rows that match the term or
\* not, with a key or without
Stores ==
    { StoreOf(ins) :
        ins \in SeqUpTo([table : StoredTables, matches : BOOLEAN, key : { "55", "77", "" }],
                        MaxRows) }

\* the sets of failing queries tried: none, one content table
FailingSets == { {}, { "bilibili_video" } }

\* the number of rows of a store
TotalRows(store) ==
    Len(Flatten([n \in 1..Len(SearchConfigs) |-> store[SearchConfigs[n].table]]))
      + Len(store["tieba_note"]) + Len(store["tieba_comment"])

\* a failing query is tried on the stores of fewer than MaxRows rows
TopicInit ==
    /\ tables \in Stores
    /\ failing \in IF TotalRows(tables) < MaxRows THEN FailingSets ELSE { {} }
    /\ topic \in { "xiaoqing" }
    /\ limit_per_table \in 0..MaxLimit
    /\ lookups = << >>
    /\ all_results = << >>

\* a call of search_topic_globally(topic, limit_per_table)
SearchTopicGloballyCall ==
    /\ pc = "constructed"
    /\ lookups' = SearchTopicGlobally(tables, topic, limit_per_table, failing).lookups
    /\ all_results' = SearchTopicGlobally(tables, topic, limit_per_table, failing).results
    /\ pc' = "topic_searched"
    /\ UNCHANGED << tables, topic, limit_per_table, failing, constructVars,
                    probeVars, cacheVars, repairVars, loaded_state, hostVars >>
    /\ UNCHANGED << MAX_REFLECTIONS, paragraphs, report_title, paragraph_index,
                    reflection_i, search_tool, adapter_call, search_response,
                    report_data, formatter_calls, final_report, is_completed,
                    save_report, report_file, state_file, returned, raised >>
    /\ UNCHANGED << dispatchVars, multimodalVars >>

TopicSpecInit ==
    ResearchIdle /\ DispatchIdle /\ MultimodalIdle /\ ConstructIdle /\ TopicInit /\ ProbeIdle
        /\ LaterIdle

TopicSpec == TopicSpecInit /\ [][SearchTopicGloballyCall]_vars

----------------------------------------------------------------------------
(* _is_url_alive *)

\* the shortest url that is probed
MinUrlLen == 10

\* the status from which a response counts as a failure
StatusLimit == 400

\* a slip: the placeholder domain is not tested
IsRejectedNoPlaceholder(u) ==
    \/ u = "" \/ Len(u) < MinUrlLen \/ ~Contains(u, "http")
    \/ Contains(u, "...")

\* the two tests before the try: the url is dead without a request
IsRejected(u) ==
    \/ u = "" \/ Len(u) < MinUrlLen \/ ~Contains(u, "http")
    \/ Contains(u, "...") \/ Contains(u, "example.com")

\* what a request does: it returns a response with a status or raises
Outcomes ==
    { [status |-> n] : n \in { 200, 301, 399, 400, 404, 500 } }
        \cup { [exception |-> e] : e \in { "Timeout", "ConnectionError" } }

\* a slip: status 400 is accepted
AcceptsUpToLimit(outcome) ==
    "status" \in DOMAIN outcome /\ outcome.status <= StatusLimit

\* r.status_code < 400, of a request that returned
Accepts(outcome) ==
    "status" \in DOMAIN outcome /\ outcome.status < StatusLimit

\* the urls tried: empty, of 5 and 9 characters, without http, truncated,
\* with the placeholder domain, and four that pass the tests
ProbedUrls ==
    { "", "abcde", "http://ab", "www.a.cn/v/12345", "http://a.cn/b...",
      "http://example.com/a", "http://a.cn", "https://a.cn/v/12345",
      "https://www.bilibili.com/video/BV1xy", "see http://a.cn" }

ProbeInit ==
    /\ url \in ProbedUrls
    /\ head_outcome = NoOutcome
    /\ get_outcome = NoOutcome
    /\ requests = << >>
    /\ alive = None

\* what no step of the probe changes
ProbeFrame ==
    /\ UNCHANGED << url, constructVars, topicVars, cacheVars, repairVars,
                    loaded_state, hostVars >>
    /\ UNCHANGED << MAX_REFLECTIONS, paragraphs, report_title, paragraph_index,
                    reflection_i, search_tool, adapter_call, search_response,
                    report_data, formatter_calls, final_report, is_completed,
                    save_report, report_file, state_file, returned, raised >>
    /\ UNCHANGED << dispatchVars, multimodalVars >>

\* _is_url_alive(url) up to the try: a rejected url returns False
IsUrlAlive ==
    /\ pc = "constructed"
    /\ IF IsRejected(url)
       THEN alive' = "False" /\ pc' = "probed"
       ELSE alive' = alive /\ pc' = "probe_head"
    /\ UNCHANGED << head_outcome, get_outcome, requests >>
    /\ ProbeFrame

\* requests.head(url, ...): an accepted status returns True, a raised
\* exception returns False from the except clause, any other status goes on
HeadRequest ==
    /\ pc = "probe_head"
    /\ \E outcome \in Outcomes :
          /\ head_outcome' = outcome
          /\ requests' = Append(requests, "HEAD")
          /\ IF Accepts(outcome) THEN alive' = "True" /\ pc' = "probed"
             ELSE IF "exception" \in DOMAIN outcome THEN alive' = "False" /\ pc' = "probed"
             ELSE alive' = alive /\ pc' = "probe_get"
    /\ UNCHANGED get_outcome
    /\ ProbeFrame

\* requests.get(url, ..., stream=True): an accepted status returns True; a
\* raised exception and any other status return False
GetRequest ==
    /\ pc = "probe_get"
    /\ \E outcome \in Outcomes :
          /\ get_outcome' = outcome
          /\ requests' = Append(requests, "GET")
          /\ alive' = IF Accepts(outcome) THEN "True" ELSE "False"
          /\ pc' = "probed"
    /\ UNCHANGED head_outcome
    /\ ProbeFrame

ProbeNext == IsUrlAlive \/ HeadRequest \/ GetRequest

ProbeSpecInit ==
    ResearchIdle /\ DispatchIdle /\ MultimodalIdle /\ ConstructIdle /\ TopicIdle /\ ProbeInit
        /\ LaterIdle

ProbeSpec == ProbeSpecInit /\ [][ProbeNext]_vars

----------------------------------------------------------------------------
(* _get_table_columns and the column cache of the class *)

\* largest number of content store clients in the process
MaxInstances == 2

\* the MediaCrawlerDB instances; __init__ gives none of them an attribute
\* of its own, so self._table_columns_cache is the dict of the class
Instances == 1..MaxInstances

\* the tables whose columns are asked for
ColumnTables == { "bilibili_video_comment", "weibo_note_comment", "tieba_comment" }

\* what _execute_query returns for SHOW COLUMNS: the rows of the listing,
\* or [] for a table without columns and when fetch_all raised
ColumnListings ==
    { << >>, << [Field |-> "id"] >>, << [Field |-> "id"], [Field |-> "content"] >> }

\* a slip: the cache is written and never read
GetTableColumnsUncached ==
    /\ pc = "constructed"
    /\ \E self \in Instances, table_name \in ColumnTables, results \in ColumnListings :
         LET columns == [k \in 1..Len(results) |-> results[k].Field]
         IN  /\ table_columns_cache' =
                    [t \in DOMAIN table_columns_cache \cup { table_name } |->
                        IF t = table_name THEN columns ELSE table_columns_cache[t]]
             /\ column_queries' = Append(column_queries,
                    [self |-> self, table_name |-> table_name])
             /\ column_call' = [queried |-> TRUE, self |-> self,
                                table_name |-> table_name, columns |-> columns]
    /\ UNCHANGED << researchVars, dispatchVars, multimodalVars, constructVars,
                    topicVars, probeVars, repairVars, loaded_state, hostVars >>

\* a call self._get_table_columns(table_name): the cached list, or the
\* listing queried, stored and returned
GetTableColumns ==
    /\ pc = "constructed"
    /\ \E self \in Instances, table_name \in ColumnTables :
         IF table_name \in DOMAIN table_columns_cache
         THEN /\ column_call' = [queried |-> FALSE, self |-> self,
                                 table_name |-> table_name,
                                 columns |-> table_columns_cache[table_name]]
              /\ UNCHANGED << table_columns_cache, column_queries >>
         ELSE \E results \in ColumnListings :
                LET columns == [k \in 1..Len(results) |-> results[k].Field]
                IN  /\ table_columns_cache' =
                           [t \in DOMAIN table_columns_cache \cup { table_name } |->
                               IF t = table_name THEN columns
                               ELSE table_columns_cache[t]]
                    /\ column_queries' = Append(column_queries,
                           [self |-> self, table_name |-> table_name])
                    /\ column_call' = [queried |-> TRUE, self |-> self,
                                       table_name |-> table_name, columns |-> columns]
    /\ UNCHANGED << researchVars, dispatchVars, multimodalVars, constructVars,
                    topicVars, probeVars, repairVars, loaded_state, hostVars >>

CacheSpecInit ==
    ResearchIdle /\ DispatchIdle /\ MultimodalIdle /\ ToolsIdle

CacheSpec == CacheSpecInit /\ [][GetTableColumns]_vars

----------------------------------------------------------------------------
(* Properties of the URL reconstruction *)

\* whether the returned string was built from an id of the platform
IdBased(u) ==
    \E prefix \in { "https://www.bilibili.com/video/", "https://www.douyin.com/video/",
                    "https://www.zhihu.com/question/", "https://www.kuaishou.com/short-video/",
                    "https://tieba.baidu.com/p/", "https://m.weibo.cn/detail/",
                    "https://weibo.com/detail/" } : StartsWith(u, prefix)

\* C12: for bilibili the id is video_id, else bvid, trimmed; an id that
\* starts with BV or, in any case, with av is used as it is, a numeric id
\* gets the prefix av, any other id is used as it is; no id gives no
\* id-based URL
C12_Bilibili ==
    (pc = "url_constructed" /\ platform = "bilibili") =>
        LET id == Strip(IF RowGet(row, "video_id") # "" THEN RowGet(row, "video_id")
                        ELSE RowGet(row, "bvid"))
            verbatim == StartsWith(id, "BV") \/ StartsWith(StrLower(id), "av")
        IN  /\ id # "" /\ verbatim => constructed = "https://www.bilibili.com/video/" \o id
            /\ ~verbatim /\ IsDigit(id) => constructed = "https://www.bilibili.com/video/av" \o id
            /\ id # "" /\ ~verbatim /\ ~IsDigit(id)
                  => constructed = "https://www.bilibili.com/video/" \o id
            /\ id = "" => ~IdBased(constructed)
            /\ row = [video_id |-> "BV1xy"] => constructed = "https://www.bilibili.com/video/BV1xy"
            /\ row = [video_id |-> "123456"]
                  => constructed = "https://www.bilibili.com/video/av123456"

\* a padded numeric video_id wins over a bvid and gets the prefix av
C12_Witness ==
    /\ pc = "url_constructed"
    /\ platform = "bilibili"
    /\ row = [video_id |-> " 12 ", bvid |-> "BV1xy"]
    /\ constructed = "https://www.bilibili.com/video/av12"

\* candidate.url and "http" in candidate.url: the test under which
\* _find_real_url_from_db adopts a URL
Adoptable(u) == u # "" /\ Contains(u, "http")

\* C13: for xhs every row gives the same placeholder, which holds no "http"
\* and so is never adopted as a repaired href
C13_Xhs ==
    (pc = "url_constructed" /\ platform = "xhs") =>
        /\ constructed = XhsPlaceholder
        /\ ~Contains(constructed, "http")
        /\ ~Adoptable(constructed)

\* an xhs row with an id and a usable raw URL gives the placeholder
C13_Witness ==
    /\ pc = "url_constructed"
    /\ platform = "xhs"
    /\ row = [note_id |-> "55", note_url |-> "https://a.cn/v/123456"]
    /\ constructed = XhsPlaceholder

\* C14: for zhihu both ids give question/{question_id}/answer/{content_id},
\* one id alone gives the URL built from that id, no id gives no id-based URL
C14_Zhihu ==
    (pc = "url_constructed" /\ platform = "zhihu") =>
        LET q == RowGet(row, "question_id")
            a == RowGet(row, "content_id")
        IN  /\ q # "" /\ a # ""
                  => constructed = "https://www.zhihu.com/question/" \o q \o "/answer/" \o a
            /\ q # "" /\ a = "" => constructed = "https://www.zhihu.com/question/" \o q
            /\ q = "" /\ a # "" => constructed = "https://www.zhihu.com/question/" \o a
            /\ q = "" /\ a = "" => ~IdBased(constructed)
            /\ row = [question_id |-> "55", content_id |-> "77"]
                  => constructed = "https://www.zhihu.com/question/55/answer/77"

\* question_id 55 and content_id 77
C14_Witness ==
    /\ pc = "url_constructed"
    /\ platform = "zhihu"
    /\ row = [question_id |-> "55", content_id |-> "77"]
    /\ constructed = "https://www.zhihu.com/question/55/answer/77"

\* C15: douyin builds from aweme_id, kuaishou from video_id, tieba from
\* note_id, else thread_id, weibo from note_id with the m.weibo.cn template
\* and only without note_id from mblogid with the weibo.com template; without
\* these ids no id-based URL is built
C15_FixedTemplates ==
    pc = "url_constructed" =>
        LET Built(id, template) ==
                IF id # "" THEN constructed = template \o id ELSE ~IdBased(constructed)
        IN  /\ platform = "douyin"
                  => Built(RowGet(row, "aweme_id"), "https://www.douyin.com/video/")
            /\ platform = "kuaishou"
                  => Built(RowGet(row, "video_id"), "https://www.kuaishou.com/short-video/")
            /\ platform = "tieba" /\ RowGet(row, "note_id") # ""
                  => constructed = "https://tieba.baidu.com/p/" \o RowGet(row, "note_id")
            /\ platform = "tieba" /\ RowGet(row, "note_id") = ""
                  => Built(RowGet(row, "thread_id"), "https://tieba.baidu.com/p/")
            /\ platform = "weibo" /\ RowGet(row, "note_id") # ""
                  => constructed = "https://m.weibo.cn/detail/" \o RowGet(row, "note_id")
            /\ platform = "weibo" /\ RowGet(row, "note_id") = ""
                  => Built(RowGet(row, "mblogid"), "https://weibo.com/detail/")

\* a weibo row with both ids is linked by its note_id
C15_Witness ==
    /\ pc = "url_constructed"
    /\ platform = "weibo"
    /\ row = [note_id |-> "55", mblogid |-> "77"]
    /\ constructed = "https://m.weibo.cn/detail/55"

\* C16: an id-based URL wins over every raw URL of the row; without one
\* (xhs aside, which never reaches the fallback) the first raw URL column
\* that holds a value, in the order parent_url, video_url, note_url,
\* aweme_url, content_url, url, decides alone: longer than 20 characters it
\* is returned (trimmed), else the result is empty and no later column is
\* tried
C16_RawUrlFallback ==
    (pc = "url_constructed" /\ platform # "xhs") =>
        /\ GeneratedUrl(platform, row) # "" =>
              constructed = GeneratedUrl(platform, row) /\ IdBased(constructed)
        /\ GeneratedUrl(platform, row) = "" =>
              /\ (\A n \in 1..Len(UrlColumns) : RowGet(row, UrlColumns[n]) = "")
                    => constructed = ""
              /\ \A n \in 1..Len(UrlColumns) :
                    LET value == RowGet(row, UrlColumns[n])
                    IN  (value # "" /\ \A m \in 1..(n - 1) : RowGet(row, UrlColumns[m]) = "")
                            => constructed = IF Len(value) > 20 THEN Strip(value) ELSE ""

\* the first raw URL is too short and a later, usable one is not tried
C16_Witness ==
    /\ pc = "url_constructed"
    /\ platform = "douyin"
    /\ row = [parent_url |-> "http://a.cn/1", url |-> "https://a.cn/v/123456"]
    /\ constructed = ""

----------------------------------------------------------------------------
(* Properties of the topic search *)

\* whether the table holds comments
IsCommentTable(t) == Len(t) >= 7 /\ SubSeq(t, Len(t) - 6, Len(t)) = "comment"

\* C17: every known table, the content and comment tables of the seven
\* platforms and the news table, receives exactly one lookup per call, and
\* the lookup of a comment table joins the content table of its platform on
\* the platform's id
C17_AllTablesSearched ==
    pc = "topic_searched" =>
        /\ \A t \in KnownTables :
              Cardinality({ n \in 1..Len(lookups) : lookups[n].table = t }) = 1
        /\ \A n \in 1..Len(lookups) :
              IsCommentTable(lookups[n].table) =>
                  /\ lookups[n].join # << >>
                  /\ PlatformShort(lookups[n].join[1]) = PlatformShort(lookups[n].table)
                  /\ ~IsCommentTable(lookups[n].join[1])

\* the number of results a table contributed
Contributed(t) == Cardinality({ n \in 1..Len(all_results) : all_results[n].source_table = t })

\* no table contributes more than limit_per_table results, so the result
\* holds at most limit_per_table times the number of tables searched
ResultsCapped ==
    /\ \A t \in KnownTables : Contributed(t) <= limit_per_table
    /\ Len(all_results) <= limit_per_table * Len(lookups)

\* C18 as stated: the returned records are ordered by insertion recency, the
\* most recently inserted first, and capped per table
C18_OrderedByRecency ==
    pc = "topic_searched" =>
        /\ \A i, j \in 1..Len(all_results) :
              i < j => all_results[i].inserted >= all_results[j].inserted
        /\ ResultsCapped

\* the position of a table in search_configs
ConfigIndex(t) == CHOOSE n \in 1..Len(SearchConfigs) : SearchConfigs[n].table = t

\* C18 as amended: the records of one table are ordered by insertion recency,
\* the most recently inserted first; the tables follow one another in the
\* order of the configuration; no table contributes more than
\* limit_per_table records, so the result holds at most limit_per_table times
\* the number of tables
C18_OrderedWithinTable ==
    pc = "topic_searched" =>
        /\ \A i, j \in 1..Len(all_results) :
              i < j =>
                  /\ ConfigIndex(all_results[i].source_table)
                        <= ConfigIndex(all_results[j].source_table)
                  /\ all_results[i].source_table = all_results[j].source_table
                        => /\ all_results[i].id >= all_results[j].id
                           /\ all_results[i].inserted >= all_results[j].inserted
        /\ ResultsCapped

\* two rows of one table match and limit_per_table 1 keeps the later one
C18_Witness ==
    /\ pc = "topic_searched"
    /\ limit_per_table = 1
    /\ Len(tables["weibo_note"]) = 2
    /\ \A n \in 1..2 : tables["weibo_note"][n].matches
    /\ Len(all_results) = 1
    /\ all_results[1].source_table = "weibo_note"
    /\ all_results[1].id = 2

----------------------------------------------------------------------------
(* Properties of the liveness probe *)

\* C19: a url that is empty, shorter than 10 characters, without "http",
\* with "..." or with example.com is dead and no request is issued for it
C19_RejectedWithoutRequest ==
    LET rejected == \/ url = ""
                    \/ Len(url) < 10
                    \/ ~Contains(url, "http")
                    \/ Contains(url, "...")
                    \/ Contains(url, "example.com")
    IN  (pc # "constructed" /\ (rejected \/ url = "http://example.com/a" \/ Len(url) = 5)) =>
            /\ pc = "probed"
            /\ alive = "False"
            /\ requests = << >>
            /\ head_outcome = NoOutcome /\ get_outcome = NoOutcome

\* the url with the placeholder domain was probed: dead, no request
C19_Witness ==
    /\ pc = "probed"
    /\ url = "http://example.com/a"
    /\ alive = "False"
    /\ requests = << >>

----------------------------------------------------------------------------
(* repair_process: the link repair pass *)

\* the href given to a link that could not be repaired
InertHref == "javascript:void(0);"

\* the text appended to the anchor of such a link and the text the guard
\* before the append looks for; the Chinese words are written by the
\* initials of their syllables
UnavailableSuffix == " (LYZBKY)"

GuardText == "(LYWFFW)"

\* the characters \w matches; a Chinese character is written in letters
WordChars ==
    LET all == "abcdefghijklmnopqrstuvwxyzABCDEFGHIJKLMNOPQRSTUVWXYZ0123456789_"
    IN  { SubSeq(all, n, n) : n \in 1..Len(all) }

\* clean_query[:20]
KeyMaxLen == 20

\* if len(clean_query) < 2: return None
KeyMinLen == 2

\* re.sub(r'[^\w一-龥\s]', ' ', text)
RECURSIVE ReplaceOthers(_)
ReplaceOthers(text) ==
    IF text = "" THEN ""
    ELSE LET c == SubSeq(text, 1, 1)
         IN  (IF c \in WordChars \/ c = " " THEN c ELSE " ")
                \o ReplaceOthers(SubSeq(text, 2, Len(text)))

\* " ".join(text.split())
RECURSIVE JoinSplit(_)
JoinSplit(text) ==
    IF text = "" THEN ""
    ELSE IF SubSeq(text, 1, 1) = " " THEN JoinSplit(SubSeq(text, 2, Len(text)))
    ELSE With(CHOOSE n \in 1..Len(text) :
                 /\ \A k \in 1..n : SubSeq(text, k, k) # " "
                 /\ n = Len(text) \/ SubSeq(text, n + 1, n + 1) = " ",
              LAMBDA n :
                 With(JoinSplit(SubSeq(text, n + 1, Len(text))),
                      LAMBDA rest :
                         IF rest = "" THEN SubSeq(text, 1, n)
                         ELSE SubSeq(text, 1, n) \o " " \o rest))

\* a slip: the key is not cut to its first 20 characters
CleanQueryUncut(query_text) == JoinSplit(ReplaceOthers(query_text))

\* clean_query of _find_real_url_from_db
CleanQuery(query_text) ==
    With(JoinSplit(ReplaceOthers(query_text)),
         LAMBDA joined : SubSeq(joined, 1, Min(Len(joined), KeyMaxLen)))

\* self.db_tool: None when MediaCrawlerDB() raised, a client, or a client
\* whose search_topic_globally raises
DbTools == { None, "MediaCrawlerDB", "MediaCrawlerDB raising" }

\* _find_real_url_from_db(query_text): the key, whether the lookup was
\* made, response.results and the value returned
FindRealUrlFromDb(query_text) ==
    LET Answer(clean_query, searched, results, real_url) ==
            [clean_query |-> clean_query, searched |-> searched,
             results |-> results, real_url |-> real_url]
        Search(clean_query) ==
            IF Len(clean_query) < KeyMinLen
            THEN Answer(clean_query, FALSE, << >>, None)
            ELSE IF db_tool = "MediaCrawlerDB raising"
            THEN Answer(clean_query, TRUE, << >>, None)
            ELSE With(SearchTopicGlobally(tables, clean_query, 1, failing).results,
                      LAMBDA results :
                         IF results # << >> /\ Adoptable(results[1].url)
                         THEN Answer(clean_query, TRUE, results, results[1].url)
                         ELSE Answer(clean_query, TRUE, results, None))
    IN  IF db_tool = None \/ query_text = ""
        THEN Answer("", FALSE, << >>, None)
        ELSE With(CleanQuery(query_text), Search)

\* _is_url_alive(url) on a network that answers every HEAD with
\* head_outcome and every GET with get_outcome
Alive(u) ==
    /\ ~IsRejected(u)
    /\ \/ Accepts(head_outcome)
       \/ "status" \in DOMAIN head_outcome /\ Accepts(get_outcome)

\* a slip: a repaired link is tagged in the anchor text as well
RepairMarkTagging(run, k) ==
    LET mark == run.marks[k]
        original_url == IF "attrs" \in DOMAIN mark /\ "href" \in DOMAIN mark.attrs
                        THEN mark.attrs.href ELSE ""
        anchor_text == IF "text" \in DOMAIN run THEN run.text ELSE ""
        WithHref(u) ==
            [a \in DOMAIN mark \cup { "attrs" } |->
                IF a # "attrs" THEN mark[a]
                ELSE IF "attrs" \in DOMAIN mark
                THEN [h \in DOMAIN mark.attrs \cup { "href" } |->
                        IF h = "href" THEN u ELSE mark.attrs[h]]
                ELSE [href |-> u]]
        Event(outcome, f) ==
            [original_url |-> original_url, anchor_text |-> anchor_text,
             had_attrs |-> "attrs" \in DOMAIN mark,
             searched |-> f.searched, clean_query |-> f.clean_query,
             results |-> f.results, real_url |-> f.real_url, outcome |-> outcome]
    IN  IF Alive(original_url)
        THEN [run |-> run,
              event |-> Event("alive", [searched |-> FALSE, clean_query |-> "",
                                        results |-> << >>, real_url |-> None])]
        ELSE With(FindRealUrlFromDb(anchor_text),
                  LAMBDA found :
                     IF found.real_url # None
                     THEN [run |-> [run EXCEPT !.marks[k] = WithHref(found.real_url),
                                               !.text = @ \o " [fixed]"],
                           event |-> Event("fixed", found)]
                     ELSE IF "text" \notin DOMAIN run
                     THEN [run |-> [run EXCEPT !.marks[k] = WithHref(InertHref)],
                           event |-> Event("KeyError", found)]
                     ELSE [run |-> [run EXCEPT
                                      !.marks[k] = WithHref(InertHref),
                                      !.text = IF Contains(@, GuardText) THEN @
                                               ELSE @ \o UnavailableSuffix],
                           event |-> Event("unavailable", found)])

\* the body of the loop over marks for the link mark k of an inline run:
\* the run as mutated and what happened
RepairMark(run, k) ==
    LET mark == run.marks[k]
        original_url == IF "attrs" \in DOMAIN mark /\ "href" \in DOMAIN mark.attrs
                        THEN mark.attrs.href ELSE ""
        anchor_text == IF "text" \in DOMAIN run THEN run.text ELSE ""
        WithHref(u) ==
            [a \in DOMAIN mark \cup { "attrs" } |->
                IF a # "attrs" THEN mark[a]
                ELSE IF "attrs" \in DOMAIN mark
                THEN [h \in DOMAIN mark.attrs \cup { "href" } |->
                        IF h = "href" THEN u ELSE mark.attrs[h]]
                ELSE [href |-> u]]
        Event(outcome, f) ==
            [original_url |-> original_url, anchor_text |-> anchor_text,
             had_attrs |-> "attrs" \in DOMAIN mark,
             searched |-> f.searched, clean_query |-> f.clean_query,
             results |-> f.results, real_url |-> f.real_url, outcome |-> outcome]
    IN  IF Alive(original_url)
        THEN [run |-> run,
              event |-> Event("alive", [searched |-> FALSE, clean_query |-> "",
                                        results |-> << >>, real_url |-> None])]
        ELSE With(FindRealUrlFromDb(anchor_text),
                  LAMBDA found :
                     IF found.real_url # None
                     THEN [run |-> [run EXCEPT !.marks[k] = WithHref(found.real_url)],
                           event |-> Event("fixed", found)]
                     ELSE IF "text" \notin DOMAIN run
                     THEN [run |-> [run EXCEPT !.marks[k] = WithHref(InertHref)],
                           event |-> Event("KeyError", found)]
                     ELSE [run |-> [run EXCEPT
                                      !.marks[k] = WithHref(InertHref),
                                      !.text = IF Contains(@, GuardText) THEN @
                                               ELSE @ \o UnavailableSuffix],
                           event |-> Event("unavailable", found)])

\* process_blocks_recursive(blocks): the places of the link marks in the
\* order the pass reaches them; at is the place of blocks in report_data
RECURSIVE VisitBlocks(_, _)
VisitBlocks(blocks, at) ==
    LET Get(node, key) == IF key \in DOMAIN node THEN node[key] ELSE << >>
        Of(block, here) ==
            LET inlines == IF "type" \in DOMAIN block /\ block.type = "paragraph"
                           THEN Get(block, "inlines") ELSE << >>
                LinksOf(r) ==
                    LET marks == Get(inlines[r], "marks")
                        IsLink(k) == "type" \in DOMAIN marks[k] /\ marks[k].type = "link"
                    IN  [n \in 1..Len(SelectSeq([k \in 1..Len(marks) |-> k], IsLink)) |->
                            [run |-> here \o << "inlines", r >>,
                             mark |-> SelectSeq([k \in 1..Len(marks) |-> k], IsLink)[n]]]
                items == Get(block, "items")
                rows == Get(block, "rows")
                CellsOf(r) ==
                    LET cells == Get(rows[r], "cells")
                    IN  Flatten([c \in 1..Len(cells) |->
                            VisitBlocks(Get(cells[c], "blocks"),
                                        here \o << "rows", r, "cells", c, "blocks" >>)])
            IN  Flatten([r \in 1..Len(inlines) |-> LinksOf(r)])
                  \o Flatten([i \in 1..Len(items) |->
                                VisitBlocks(items[i], here \o << "items", i >>)])
                  \o VisitBlocks(Get(block, "blocks"), here \o << "blocks" >>)
                  \o Flatten([r \in 1..Len(rows) |-> CellsOf(r)])
    IN  Flatten([b \in 1..Len(blocks) |-> Of(blocks[b], at \o << b >>)])

\* the node at a place of a tree
RECURSIVE At(_, _)
At(node, place) ==
    IF Len(place) = 0 THEN node ELSE At(node[Head(place)], Tail(place))

\* the tree after the node at a place was mutated
RECURSIVE Put(_, _, _)
Put(node, place, value) ==
    IF Len(place) = 0 THEN value
    ELSE [node EXCEPT ![Head(place)] = Put(@, Tail(place), value)]

\* the loop of the pass from the link mark after those done: the tree as
\* mutated and what happened at each link mark, with its place; the
\* KeyError of run['text'] ends the pass
RECURSIVE RepairLinks(_, _, _)
RepairLinks(tree, places, done) ==
    IF \/ Len(done) = Len(places)
       \/ Len(done) > 0 /\ done[Len(done)].outcome = "KeyError"
    THEN [tree |-> tree, events |-> done]
    ELSE LET place == places[Len(done) + 1]
             Step(run) ==
                With(RepairMark(run, place.mark),
                     LAMBDA repaired :
                        With(<< Put(tree, place.run, repaired.run),
                                Append(done, ("place" :> place) @@ repaired.event) >>,
                             LAMBDA next : RepairLinks(next[1], places, next[2])))
         IN  With(At(tree, place.run), Step)

\* the loop over report_data['chapters']: the places of the link marks of
\* a document in the order the pass reaches them
LinkPlaces(data) ==
    IF "chapters" \in DOMAIN data
    THEN Flatten([c \in 1..Len(data.chapters) |->
            IF "blocks" \in DOMAIN data.chapters[c]
            THEN VisitBlocks(data.chapters[c].blocks, << "chapters", c, "blocks" >>)
            ELSE << >>])
    ELSE << >>

\* repair_process(report_data): the tree handed in and as mutated, what
\* happened at each link mark, fixed_count, the exception raised and the
\* values returned
RepairProcess(data) ==
    LET Outcome(pass) ==
            LET events == pass.events
                fixed_count ==
                    Cardinality({ k \in 1..Len(events) : events[k].outcome = "fixed" })
                key_error ==
                    Len(events) > 0 /\ events[Len(events)].outcome = "KeyError"
            IN  [before |-> data,
                 report_data |-> pass.tree,
                 events |-> events,
                 fixed_count |-> fixed_count,
                 raised |-> IF key_error THEN "KeyError" ELSE None,
                 returned |-> IF key_error THEN << >> ELSE << pass.tree >>]
        Pass(places) == With(RepairLinks(data, places, << >>), Outcome)
    IN  With(LinkPlaces(data), Pass)

----------------------------------------------------------------------------
(* repair_process called on a link repair agent *)

\* deepest nesting of a paragraph in containers
MaxDepth == 1

\* largest number of passes over one document
MaxPasses == 2

\* a link mark with an address
Link(href) == [type |-> "link", attrs |-> [href |-> href]]

\* the marks of a run: none, a link that passes the tests of the probe, a
\* link to the placeholder domain, a link without attrs, a link after
\* another mark, two links
MarkLists ==
    { << >>,
      << Link("https://a.cn/v/12345") >>,
      << Link("http://example.com/a") >>,
      << [type |-> "link"] >>,
      << [type |-> "bold"], Link("https://a.cn/v/12345") >>,
      << Link("https://a.cn/v/12345"), Link("http://example.com/a") >> }

\* the anchor texts: plain, of one character, of punctuation only, and
\* longer than a key with punctuation and runs of blanks
AnchorTexts ==
    { "xiao qing", "a", "!?", "xiao-qing:  2024 nian de  wenti!",
      "zhongguo_daxue 18 ge wenti" }

\* the inline runs: each anchor text under a dead link, each list of marks
\* on a plain text and on a run without text, a link to the address the
\* store holds for its text, and a run without marks
Runs ==
    { [text |-> t, marks |-> << Link("http://example.com/a") >>] : t \in AnchorTexts }
        \cup { [text |-> "xiao qing", marks |-> ms] : ms \in MarkLists }
        \cup { [text |-> "xiao qing", marks |-> << Link("https://news.cn/art/55") >>] }
        \cup { [marks |-> ms] : ms \in MarkLists }
        \cup { [text |-> "xiao qing"] }

\* the paragraphs: one run each, and a paragraph without inlines
Paragraphs ==
    { [type |-> "paragraph", inlines |-> << r >>] : r \in Runs }
        \cup { [type |-> "paragraph"] }

\* the paragraph at the end of a chapter: a dead link on a plain text
LastParagraph ==
    [type |-> "paragraph",
     inlines |-> << [text |-> "xiao qing", marks |-> << Link("http://example.com/b") >>] >>]

\* a block in a container: a list item, a quote, a table cell, and a node
\* that is a paragraph and holds items and blocks as well
Wrapped(b) ==
    { [type |-> "list", items |-> << << b >> >>],
      [type |-> "blockquote", blocks |-> << b >>],
      [type |-> "table", rows |-> << [cells |-> << [blocks |-> << b >>] >>] >>],
      [type |-> "paragraph", inlines |-> LastParagraph.inlines,
       items |-> << << b >> >>, blocks |-> << LastParagraph >>] }

\* the blocks of nesting depth up to d
RECURSIVE Nested(_)
Nested(d) ==
    IF d = 0 THEN Paragraphs
    ELSE Nested(d - 1) \cup UNION { Wrapped(b) : b \in Nested(d - 1) }

\* the documents: one chapter of one block, a chapter without blocks before
\* a chapter of a paragraph and the last paragraph, and a document without
\* chapters
Documents ==
    { [chapters |-> << [blocks |-> << b >>] >>] : b \in Nested(MaxDepth) }
        \cup { [chapters |-> << [title |-> "yi"], [blocks |-> << b, LastParagraph >>] >>] :
                b \in Paragraphs }
        \cup { [title |-> "baogao"] }

\* the stores: empty; a news row; a video row without id before a news
\* row; a video row and a news row
RepairStores ==
    { StoreOf(ins) : ins \in
        { << >>,
          << [table |-> "daily_news", matches |-> TRUE, key |-> "55"] >>,
          << [table |-> "bilibili_video", matches |-> TRUE, key |-> ""],
             [table |-> "daily_news", matches |-> TRUE, key |-> "55"] >>,
          << [table |-> "bilibili_video", matches |-> TRUE, key |-> "55"],
             [table |-> "daily_news", matches |-> TRUE, key |-> "77"] >> } }

\* LinkRepairAgent(): the client or None, on a store and a network; one
\* query fails on the store of a video row and a news row
RepairInit ==
    /\ db_tool \in DbTools
    /\ tables \in IF db_tool = "MediaCrawlerDB" THEN RepairStores ELSE { StoreOf(<< >>) }
    /\ failing \in IF Len(tables["bilibili_video"]) = 1 /\ tables["bilibili_video"][1].key # ""
                   THEN FailingSets ELSE { {} }
    /\ head_outcome \in { [status |-> 200], [status |-> 404] }
    /\ get_outcome = [status |-> 404]
    /\ document \in Documents
    /\ passes = << >>

\* a call repair_process(document): the tree is mutated in place
RepairProcessCall ==
    /\ pc = "constructed"
    /\ Len(passes) < MaxPasses
    /\ \E pass \in { RepairProcess(document) } :
          /\ document' = pass.report_data
          /\ passes' = Append(passes, pass)
    /\ UNCHANGED << db_tool, tables, failing, head_outcome, get_outcome >>
    /\ UNCHANGED << topic, limit_per_table, lookups, all_results,
                    url, requests, alive >>
    /\ UNCHANGED << researchVars, dispatchVars, multimodalVars, constructVars,
                    cacheVars, loaded_state, hostVars >>

RepairSpecInit ==
    /\ ResearchIdle /\ DispatchIdle /\ MultimodalIdle /\ ConstructIdle
    /\ CacheIdle /\ PersistIdle /\ HostIdle
    /\ topic = None /\ limit_per_table = 0 /\ lookups = << >> /\ all_results = << >>
    /\ url = None /\ requests = << >> /\ alive = None
    /\ RepairInit

RepairSpec == RepairSpecInit /\ [][RepairProcessCall]_vars

----------------------------------------------------------------------------
(* Properties of the column cache *)

\* the number of SHOW COLUMNS queries executed for a table
ColumnQueriesOf(t) ==
    Cardinality({ k \in 1..Len(column_queries) : column_queries[k].table_name = t })

\* the cache holds the tables queried, each table was queried at most once,
\* and the last call returned the entry of its table
C29_ReadThrough ==
    /\ \A t \in ColumnTables : ColumnQueriesOf(t) <= 1
    /\ DOMAIN table_columns_cache =
         { column_queries[k].table_name : k \in 1..Len(column_queries) }
    /\ "table_name" \in DOMAIN column_call =>
         /\ column_call.table_name \in DOMAIN table_columns_cache
         /\ column_call.columns = table_columns_cache[column_call.table_name]

\* a call leaves every entry as it is, and a call for a cached table,
\* from whichever instance, executes no query
C29_WriteOnce ==
    /\ \A t \in DOMAIN table_columns_cache :
         /\ t \in DOMAIN table_columns_cache'
         /\ table_columns_cache'[t] = table_columns_cache[t]
    /\ column_call'.table_name \in DOMAIN table_columns_cache =>
         /\ ~column_call'.queried
         /\ column_queries' = column_queries
         /\ column_call'.columns = table_columns_cache[column_call'.table_name]

----------------------------------------------------------------------------
(* Properties of the saved state *)

----------------------------------------------------------------------------
(* Properties of the link repair pass *)

\* what happened at the link marks of all passes, in order
AllEvents == Flatten([p \in 1..Len(passes) |-> passes[p].events])

\* the link mark a place names, in a tree
MarkAt(tree, place) == At(tree, place.run).marks[place.mark]

\* C21: a key handed to search_topic_globally holds only word characters,
\* Chinese characters and single blanks, no run of blanks, and has 2 to 20
\* characters; an anchor text that cleans to fewer than 2 characters, an
\* empty or missing text included, gets no lookup
C21_RepairKey ==
    \A n \in 1..Len(AllEvents) :
        LET e == AllEvents[n]
            key == e.clean_query
        IN  /\ e.searched =>
                /\ Len(key) >= 2 /\ Len(key) <= 20
                /\ \A k \in 1..Len(key) :
                     \/ SubSeq(key, k, k) \in WordChars
                     \/ SubSeq(key, k, k) = " "
                /\ ~Contains(key, "  ")
                /\ SubSeq(key, 1, 1) # " "
            /\ (e.anchor_text = "" \/ Len(CleanQuery(e.anchor_text)) < 2) =>
                /\ ~e.searched
                /\ e.outcome # "fixed"

\* a long anchor text with punctuation and runs of blanks gave a key of 20
\* characters, and a text of punctuation only gave no lookup
C21_Witness ==
    /\ Len(passes) = 2
    /\ \E n \in 1..Len(AllEvents) :
         /\ AllEvents[n].anchor_text = "xiao-qing:  2024 nian de  wenti!"
         /\ AllEvents[n].searched
         /\ AllEvents[n].clean_query = "xiao qing 2024 nian "
    /\ db_tool = "MediaCrawlerDB"
    /\ head_outcome = [status |-> 404]

\* C22: whenever a record the lookup returned has a usable canonical URL,
\* the link is repaired with the URL of the first such record, in result
\* order across all tables
C22_FirstUsableUrl ==
    \A n \in 1..Len(AllEvents) :
        LET e == AllEvents[n]
            usable == { k \in 1..Len(e.results) : Adoptable(e.results[k].url) }
        IN  (e.searched /\ usable # {}) =>
                /\ e.outcome = "fixed"
                /\ e.real_url = e.results[CHOOSE k \in usable :
                                            \A j \in usable : k <= j].url

\* the number of times the suffix stands in a text
SuffixCount(text) ==
    Cardinality({ n \in 1..(Len(text) - Len(UnavailableSuffix) + 1) :
                    SubSeq(text, n, n + Len(UnavailableSuffix) - 1) = UnavailableSuffix })

\* C23: a link without candidate has the inert href and the suffix on its
\* anchor text, and after any number of passes the suffix stands at most
\* once in an anchor text
C23_SuffixOnce ==
    /\ \A p \in 1..Len(passes) : \A k \in 1..Len(passes[p].events) :
         passes[p].events[k].outcome = "unavailable" =>
            LET place == passes[p].events[k].place
            IN  /\ MarkAt(passes[p].report_data, place).attrs.href = InertHref
                /\ SuffixCount(At(passes[p].report_data, place.run).text) >= 1
    /\ \A n \in 1..Len(LinkPlaces(document)) :
         LET run == At(document, LinkPlaces(document)[n].run)
         IN  "text" \in DOMAIN run => SuffixCount(run.text) <= 1

\* C24: a pass mutates the tree handed in and returns the tree and the
\* number of link marks whose href it replaced by an address of the store
C24_ReturnsTreeAndCount ==
    \A p \in 1..Len(passes) :
        LET pass == passes[p]
            replaced == { k \in 1..Len(pass.events) :
                            /\ pass.events[k].real_url # None
                            /\ MarkAt(pass.report_data, pass.events[k].place).attrs.href
                                 = pass.events[k].real_url }
        IN  pass.raised = None =>
                /\ Len(pass.returned) = 2
                /\ pass.returned[1] = pass.report_data
                /\ pass.returned[2] = Cardinality(replaced)

\* C25: no pass raises, whatever the probe and the lookup do and whether or
\* not a mark has attrs and a run has text; after a pass every link mark
\* has attrs with a href
C25_NeverRaises ==
    \A p \in 1..Len(passes) :
        /\ passes[p].raised = None
        /\ \A n \in 1..Len(passes[p].events) :
             LET mark == MarkAt(passes[p].report_data, passes[p].events[n].place)
             IN  passes[p].events[n].outcome # "alive" =>
                    "attrs" \in DOMAIN mark /\ "href" \in DOMAIN mark.attrs

\* the addresses of the link marks of a list of blocks, in document order:
\* those of a paragraph's runs, then those under items, blocks and rows
RECURSIVE HrefsIn(_)
HrefsIn(blocks) ==
    LET Get(node, key) == IF key \in DOMAIN node THEN node[key] ELSE << >>
        Href(mark) == IF "attrs" \in DOMAIN mark /\ "href" \in DOMAIN mark.attrs
                      THEN << mark.attrs.href >> ELSE << "" >>
        OfRun(run) ==
            Flatten([k \in 1..Len(Get(run, "marks")) |->
                IF "type" \in DOMAIN run.marks[k] /\ run.marks[k].type = "link"
                THEN Href(run.marks[k]) ELSE << >>])
        OfBlock(block) ==
            (IF "type" \in DOMAIN block /\ block.type = "paragraph"
             THEN Flatten([r \in 1..Len(Get(block, "inlines")) |-> OfRun(block.inlines[r])])
             ELSE << >>)
            \o Flatten([i \in 1..Len(Get(block, "items")) |-> HrefsIn(block.items[i])])
            \o HrefsIn(Get(block, "blocks"))
            \o Flatten([r \in 1..Len(Get(block, "rows")) |->
                  Flatten([c \in 1..Len(Get(block.rows[r], "cells")) |->
                      HrefsIn(Get(block.rows[r].cells[c], "blocks"))])])
    IN  Flatten([b \in 1..Len(blocks) |-> OfBlock(blocks[b])])

\* C26: a pass probes every link mark of the document exactly once, in
\* document order, depth first through items, blocks and rows
C26_EveryLinkOnce ==
    \A p \in 1..Len(passes) :
        LET data == passes[p].before
            hrefs == IF "chapters" \in DOMAIN data
                     THEN Flatten([c \in 1..Len(data.chapters) |->
                             IF "blocks" \in DOMAIN data.chapters[c]
                             THEN HrefsIn(data.chapters[c].blocks) ELSE << >>])
                     ELSE << >>
        IN  /\ Len(passes[p].events) = Len(hrefs)
            /\ \A k \in 1..Len(hrefs) : passes[p].events[k].original_url = hrefs[k]

\* C27 (stated of the pass made last, so it is checked of every pass when
\* it is made): a table whose query raises counts as a table without rows and the
\* records of the other tables are returned as without the failure; a
\* lookup that raises or returns nothing leaves the link without candidate
\* and the link gets the unavailable fallback
C27_FailureIsNoCandidate ==
    passes # << >> =>
        LET pass == passes[Len(passes)]
            NotFailing(r) == r.source_table \notin failing
        IN  \A k \in 1..Len(pass.events) :
                LET e == pass.events[k]
                    unfailing == SearchTopicGlobally(tables, e.clean_query, 1, {}).results
                IN  e.searched =>
                        /\ db_tool = "MediaCrawlerDB" =>
                              e.results = SelectSeq(unfailing, NotFailing)
                        /\ db_tool # "MediaCrawlerDB" => e.results = << >>
                        /\ e.results = << >> =>
                              /\ e.outcome = "unavailable"
                              /\ MarkAt(pass.report_data, e.place).attrs.href = InertHref
                              /\ Contains(At(pass.report_data, e.place.run).text,
                                          UnavailableSuffix)

\* the query of the video table raised, and the link was repaired with the
\* address of the news row; and a lookup that raised as a whole is reached
\* in other runs
C27_Witness ==
    /\ failing = { "bilibili_video" }
    /\ Len(tables["bilibili_video"]) = 1
    /\ \E n \in 1..Len(AllEvents) :
         /\ AllEvents[n].searched
         /\ Len(AllEvents[n].results) = 1
         /\ AllEvents[n].results[1].source_table = "daily_news"
         /\ AllEvents[n].outcome = "fixed"

----------------------------------------------------------------------------
(* Properties of the order of the steps of a round *)

\* the summarization requests made so far for paragraph k: those that gave
\* a summary and the one that raised
SummaryRequests(k) ==
    Len(paragraphs[k].summaries)
      + (IF raised = "summarize" /\ k = paragraph_index + 1 THEN 1 ELSE 0)

\* C31: the search record of a round is appended before the summarization
\* collaborator is called: at every point of a run the search history of a
\* paragraph is as long as the number of summarization requests made for
\* it or longer by exactly one, and when the summarization raises in round
\* r the paragraph is left with r + 1 search records and not completed
C31_RecordBeforeSummary ==
    /\ [](\A k \in 1..Len(paragraphs) :
            Len(paragraphs[k].search_history)
               \in { SummaryRequests(k), SummaryRequests(k) + 1 })
    /\ [][/\ pc \in { "first_summary", "reflection_summary" }
             => Len(Current.search_history) = Len(Current.summaries) + 1
          /\ pc = "first_summary" /\ pc' = "error"
             => /\ Len(paragraphs'[paragraph_index + 1].search_history) = 1
                /\ ~paragraphs'[paragraph_index + 1].completed
          /\ pc = "reflection_summary" /\ pc' = "error"
             => /\ Len(paragraphs'[paragraph_index + 1].search_history)
                      = (reflection_i + 1) + 1
                /\ ~paragraphs'[paragraph_index + 1].completed]_vars

\* the summarization of the first reflection round of the second paragraph
\* raised: the paragraph has two search records and one summary
C31_Witness ==
    /\ pc = "error"
    /\ raised = "summarize"
    /\ paragraph_index = 1
    /\ Len(Current.search_history) = 2
    /\ Len(Current.summaries) = 1
    /\ ~Current.completed

----------------------------------------------------------------------------
(* A run of research() or the repair passes over a document, to the end *)

TerminationInit == Init \/ RepairSpecInit

\* a step of research() of an agent
ResearchStep == document = << >> /\ Next

\* a repair pass of a link repair agent over its document
RepairStep == document # << >> /\ RepairProcessCall

TerminationNext == ResearchStep \/ RepairStep

\* research() is sequential code without a wait: a step of it that can be
\* taken is taken; a repair pass is one step
TerminationSpec ==
    TerminationInit /\ [][TerminationNext]_vars /\ WF_vars(ResearchStep)

----------------------------------------------------------------------------
(* Properties of termination *)

\* research() returned or raised
RunEnded == pc \in { "done", "error", "state_saved", "state_loaded" }

\* the calls of execute_search_tool of the run so far: each is followed by
\* its search record in the same step
SearchInvocations ==
    LET RECURSIVE Sum(_)
        Sum(k) == IF k = 0 THEN 0
                  ELSE Len(paragraphs[k].search_history) + Sum(k - 1)
    IN  Sum(Len(paragraphs))

\* the link marks of a tree, counted in document order
LinkMarks(data) ==
    IF "chapters" \in DOMAIN data
    THEN Len(Flatten([c \in 1..Len(data.chapters) |->
                IF "blocks" \in DOMAIN data.chapters[c]
                THEN HrefsIn(data.chapters[c].blocks) ELSE << >>]))
    ELSE 0

\* C32: research() ends; a run in which no collaborator raised ends after
\* exactly P * (1 + R) calls of the search tool and one formatting attempt,
\* with at most one manual formatting after it; and a repair pass ends
\* with at most one probe and at most one lookup for each link mark of the
\* document
C32_Terminates ==
    /\ <>(document = << >> => RunEnded)
    /\ [](SearchInvocations <= Len(paragraphs) * (1 + MAX_REFLECTIONS))
    /\ [](RunEnded /\ raised = None =>
            /\ SearchInvocations = Len(paragraphs) * (1 + MAX_REFLECTIONS)
            /\ Len(formatter_calls) \in { 1, 2 }
            /\ formatter_calls[1].method = "run"
            /\ Len(formatter_calls) = 2 =>
                  formatter_calls[2].method = "format_report_manually")
    /\ [](\A p \in 1..Len(passes) :
            LET events == passes[p].events
                lookups_made == { k \in 1..Len(events) : events[k].searched }
            IN  /\ Len(events) <= LinkMarks(passes[p].before)
                /\ Cardinality(lookups_made) <= Len(events)
                /\ \A k, n \in 1..Len(events) :
                      events[k].place = events[n].place => k = n)

\* a run of two paragraphs and two reflections ended without error after
\* a manual formatting
C32_Witness ==
    /\ pc = "done"
    /\ raised = None
    /\ Len(paragraphs) = 2
    /\ MAX_REFLECTIONS = 2
    /\ SearchInvocations = 6
    /\ Len(formatter_calls) = 2

\* a pass over a document of two link marks ended, with one lookup
C32_PassWitness ==
    \E p \in 1..Len(passes) :
        /\ passes[p].raised = None
        /\ Len(passes[p].events) = 2
        /\ Cardinality({ k \in 1..2 : passes[p].events[k].searched }) = 1

----------------------------------------------------------------------------
(* Properties of what a repair pass leaves alone *)

\* the tree of a pass with the mutations of its dead links taken back: the
\* mark of every link that was not alive and the text of every run whose
\* link got the unavailable fallback are those of the tree handed in
RECURSIVE Undone(_, _, _)
Undone(tree, pass, k) ==
    IF k = 0 THEN tree
    ELSE LET e == pass.events[k]
             was == At(pass.before, e.place.run)
             now == At(tree, e.place.run)
             marks == [now.marks EXCEPT ![e.place.mark] = was.marks[e.place.mark]]
         IN  Undone(IF e.outcome = "alive" THEN tree
                    ELSE IF e.outcome = "unavailable"
                    THEN Put(tree, e.place.run,
                             [now EXCEPT !.marks = marks, !.text = was.text])
                    ELSE Put(tree, e.place.run, [now EXCEPT !.marks = marks]),
                    pass, k - 1)

----------------------------------------------------------------------------
(* Properties of the hrefs after a repair pass *)

\* C34 (stated of the pass made last, so it is checked of every pass when
\* it is made): after a pass that finishes, the href of every link mark
\* visited is its href before the pass, classified alive, or an address of
\* the content store that holds "http", or the inert reference; and no
\* link keeps an href that was classified dead
C34_NoDeadHrefKept ==
    passes # << >> /\ passes[Len(passes)].raised = None =>
        LET pass == passes[Len(passes)]
        IN  \A k \in 1..Len(pass.events) :
                LET e == pass.events[k]
                    href == MarkAt(pass.report_data, e.place).attrs.href
                IN  /\ \/ e.outcome = "alive" /\ href = e.original_url
                       \/ /\ e.outcome = "fixed"
                          /\ href = e.results[1].url
                          /\ Contains(href, "http")
                       \/ e.outcome = "unavailable" /\ href = InertHref
                    /\ e.outcome # "alive" /\ href # InertHref
                          => href # e.original_url

\* the three kinds of href after a pass that finishes, without the last
\* clause
ThreeKindsOfHref ==
    passes # << >> /\ passes[Len(passes)].raised = None =>
        LET pass == passes[Len(passes)]
        IN  \A k \in 1..Len(pass.events) :
                LET e == pass.events[k]
                    href == MarkAt(pass.report_data, e.place).attrs.href
                IN  \/ e.outcome = "alive" /\ href = e.original_url
                    \/ /\ e.outcome = "fixed"
                       /\ href = e.results[1].url
                       /\ Contains(href, "http")
                    \/ e.outcome = "unavailable" /\ href = InertHref

----------------------------------------------------------------------------
(* Properties of the strings of the URL reconstruction *)

\* C35: every string _construct_url_smart returns is empty, the xhs
\* placeholder or holds "http", so that a string that is not empty, for a
\* platform other than xhs, is a usable URL
C35_UsableOrEmpty ==
    pc = "url_constructed" =>
        /\ \/ constructed = ""
           \/ constructed = XhsPlaceholder
           \/ Contains(constructed, "http")
        /\ platform # "xhs" /\ constructed # "" => Contains(constructed, "http")

\* the platforms _construct_url_smart has a branch for
RulePlatforms == { "bilibili", "xhs", "douyin", "zhihu", "kuaishou", "tieba", "weibo" }

\* C36: _construct_url_smart returns a string for every platform and every
\* row, rows with missing or empty columns included, and never raises: a
\* row whose reading raises gives the empty string; a platform without a
\* branch gets the raw URL of the row, if that is longer than 20
\* characters, and nothing else
C36_TotalWithFallback ==
    pc = "url_constructed" =>
        /\ constructed \in STRING
        /\ constructed # "AttributeError"
        /\ IsNoMapping(row) =>
              constructed = IF platform = "xhs" THEN XhsPlaceholder ELSE ""
        /\ platform \notin RulePlatforms /\ ~IsNoMapping(row) =>
              \/ /\ constructed = ""
                 /\ \A n \in 1..Len(UrlColumns) :
                       RowGet(row, UrlColumns[n]) # "" =>
                          \/ Len(RowGet(row, UrlColumns[n])) <= 20
                          \/ Strip(RowGet(row, UrlColumns[n])) = ""
                          \/ \E m \in 1..(n - 1) : RowGet(row, UrlColumns[m]) # ""
              \/ \E n \in 1..Len(UrlColumns) :
                    /\ constructed = Strip(RowGet(row, UrlColumns[n]))
                    /\ Len(RowGet(row, UrlColumns[n])) > 20
                    /\ \A m \in 1..(n - 1) : RowGet(row, UrlColumns[m]) = ""

\* the reading of a row that is no mapping raised under the bilibili
\* branch, and the empty string was returned
C36_Witness ==
    /\ pc = "url_constructed"
    /\ platform = "bilibili"
    /\ IsNoMapping(row)
    /\ constructed = ""

\* a news row, for which there is no branch, got its raw URL
C36_NewsWitness ==
    /\ pc = "url_constructed"
    /\ platform = "daily"
    /\ DOMAIN row = { "url", "video_id" }
    /\ constructed = "https://a.cn/v/123456"

----------------------------------------------------------------------------
(* Properties of the url of a record of the topic search *)

----------------------------------------------------------------------------
(* ForumHost: the host of the forum *)

\* the character of a string at a position
CharAt(s, n) == SubSeq(s, n, n)

\* the first position at or after n whose character is outside a set
RECURSIVE SkipWhile(_, _, _)
SkipWhile(s, n, chars) ==
    IF n <= Len(s) /\ CharAt(s, n) \in chars
    THEN SkipWhile(s, n + 1, chars)
    ELSE n

\* the characters \d matches
DigitChars == { "0", "1", "2", "3", "4", "5", "6", "7", "8", "9" }

\* re.match(r'\[(\d{2}:\d{2}:\d{2})\]\s*\[(\w+)\]\s*(.+)', line): the three
\* groups, or no match; each greedy run is the longest one, but for the
\* spaces before the content, which leave it one character when nothing
\* else follows
MatchLine(line) ==
    LET stamped == /\ Len(line) >= 10
                   /\ CharAt(line, 1) = "["
                   /\ \A n \in { 2, 3, 5, 6, 8, 9 } : CharAt(line, n) \in DigitChars
                   /\ \A n \in { 4, 7 } : CharAt(line, n) = ":"
                   /\ CharAt(line, 10) = "]"
        open    == SkipWhile(line, 11, { " " })
        close   == SkipWhile(line, open + 1, WordChars)
        rest    == SkipWhile(line, close + 1, { " " })
    IN  IF ~stamped
        THEN [matched |-> FALSE]
        ELSE IF ~(/\ open <= Len(line) /\ CharAt(line, open) = "["
                  /\ close > open + 1
                  /\ close < Len(line) /\ CharAt(line, close) = "]")
        THEN [matched |-> FALSE]
        ELSE [matched   |-> TRUE,
              timestamp |-> SubSeq(line, 2, 9),
              speaker   |-> SubSeq(line, open + 1, close - 1),
              content   |-> IF rest <= Len(line)
                            THEN SubSeq(line, rest, Len(line))
                            ELSE SubSeq(line, Len(line), Len(line))]

\* content.replace('\\n', '\n')
RECURSIVE ReplaceEscapedNewlines(_)
ReplaceEscapedNewlines(content) ==
    IF content = "" THEN ""
    ELSE IF Len(content) >= 2 /\ SubSeq(content, 1, 2) = "\\n"
    THEN "\n" \o ReplaceEscapedNewlines(SubSeq(content, 3, Len(content)))
    ELSE CharAt(content, 1) \o ReplaceEscapedNewlines(SubSeq(content, 2, Len(content)))

\* the speakers whose speeches are recorded
AgentSpeakers == { "INSIGHT", "MEDIA", "QUERY" }

\* _parse_forum_logs(forum_logs), for a list of str
RECURSIVE ParseForumLogs(_)
ParseForumLogs(logs) ==
    IF logs = << >>
    THEN [agent_speeches |-> << >>]
    ELSE With(ParseForumLogs(SubSeq(logs, 1, Len(logs) - 1)),
              LAMBDA parsed :
                 LET line == logs[Len(logs)]
                 IN  IF Strip(line) = ""
                     THEN parsed
                     ELSE With(MatchLine(line),
                               LAMBDA match :
                                  IF match.matched /\ match.speaker \in AgentSpeakers
                                  THEN [agent_speeches |->
                                          Append(parsed.agent_speeches,
                                                 [timestamp |-> match.timestamp,
                                                  speaker   |-> match.speaker,
                                                  content   |-> ReplaceEscapedNewlines(
                                                                    match.content)])]
                                  ELSE parsed))

\* re.findall(r'\b\w+\b', text), for a str
RECURSIVE FindAllWords(_)
FindAllWords(text) ==
    IF text = "" THEN << >>
    ELSE IF CharAt(text, 1) \notin WordChars
    THEN FindAllWords(SubSeq(text, 2, Len(text)))
    ELSE With(SkipWhile(text, 1, WordChars),
              LAMBDA n : << SubSeq(text, 1, n - 1) >>
                            \o FindAllWords(SubSeq(text, n, Len(text))))

\* stopwords of ForumHost._extract_keywords, each word written in letters
HostStopWords == { "de", "le", "shi", "zai", "he", "you", "zhe", "na" }

\* whether a word is none of the stopwords
NotHostStopWord(word) == word \notin HostStopWords

\* ForumHost._extract_keywords(text)
HostExtractKeywords(text) ==
    IF text = "" THEN << >>
    ELSE SelectSeq(FindAllWords(Strip(text)), NotHostStopWord)

\* opposing_pairs, each word written in letters
OpposingPairs ==
    << << "zhichi", "fandui" >>, << "zhengmian", "fumian" >>,
       << "shangzhang", "xiadie" >>, << "youxiao", "wuxiao" >> >>

\* op_a[:50]
OpinionMaxLen == 50

\* s[:n]
Cut(s, n) == SubSeq(s, 1, Min(Len(s), n))

\* the dict appended to conflicts
Conflict(a, op_a, b, op_b, pair) ==
    [agent1   |-> a.agent,
     opinion1 |-> Cut(op_a, OpinionMaxLen) \o "...",
     agent2   |-> b.agent,
     opinion2 |-> Cut(op_b, OpinionMaxLen) \o "...",
     reason   |-> pair[1] \o "/" \o pair[2]]

\* (kw1 in keywords_a and kw2 in keywords_b) or
\* (kw2 in keywords_a and kw1 in keywords_b)
Opposed(keywords_a, keywords_b, pair) ==
    \/ pair[1] \in Range(keywords_a) /\ pair[2] \in Range(keywords_b)
    \/ pair[2] \in Range(keywords_a) /\ pair[1] \in Range(keywords_b)

\* a slip: the loop over the opposing pairs goes on after a conflict
ConflictsOfPairNoBreak(a, b) ==
    With(<< Strip(a.opinion), Strip(b.opinion) >>,
         LAMBDA op :
            IF op[1] = "" \/ op[2] = ""
            THEN << >>
            ELSE With(<< HostExtractKeywords(op[1]), HostExtractKeywords(op[2]) >>,
                      LAMBDA keywords :
                         LET Hit(pair) == Opposed(keywords[1], keywords[2], pair)
                             hits      == SelectSeq(OpposingPairs, Hit)
                         IN  [n \in 1..Len(hits) |->
                                Conflict(a, op[1], b, op[2], hits[n])]))

\* the body of the loops over i and j of _detect_conflicts, for one pair of
\* valid opinions: what it appends to conflicts
ConflictsOfPair(a, b) ==
    With(<< Strip(a.opinion), Strip(b.opinion) >>,
         LAMBDA op :
            IF op[1] = "" \/ op[2] = ""
            THEN << >>
            ELSE With(<< HostExtractKeywords(op[1]), HostExtractKeywords(op[2]) >>,
                      LAMBDA keywords :
                         LET Hit(pair) == Opposed(keywords[1], keywords[2], pair)
                             hits      == SelectSeq(OpposingPairs, Hit)
                         IN  IF hits = << >>
                             THEN << >>
                             ELSE << Conflict(a, op[1], b, op[2], Head(hits)) >>))

\* op.get("agent") and op.get("opinion")
IsValidOpinion(op) ==
    /\ "agent" \in DOMAIN op /\ op.agent # ""
    /\ "opinion" \in DOMAIN op /\ op.opinion # ""

\* valid_opinions
ValidOpinions(ops) == SelectSeq(ops, IsValidOpinion)

\* the loops over i and j, from the pair (i, j) on
RECURSIVE PairConflicts(_, _, _)
PairConflicts(valid, i, j) ==
    IF i > Len(valid) THEN << >>
    ELSE IF j > Len(valid) THEN PairConflicts(valid, i + 1, i + 2)
    ELSE ConflictsOfPair(valid[i], valid[j]) \o PairConflicts(valid, i, j + 1)

\* _detect_conflicts(opinions)
DetectConflicts(ops) ==
    With(ValidOpinions(ops),
         LAMBDA valid : IF Len(valid) < 2 THEN << >> ELSE PairConflicts(valid, 1, 2))

\* the notes of moderate_discussion and the notice of generate_host_speech,
\* written by the initials of their syllables
NoValidNote == "DQWYXAgentFY, WFJYGD"

ConsistentNote == "DQTLGDYZ, WMXMD"

DegradedNotice == "GDJYHJYC, YTG"

\* the note of one conflict
ConflictNote(conflict) ==
    "JCDGDMD: " \o conflict.agent1 \o " yu " \o conflict.agent2 \o " DGDCZDL\n"
        \o "  - " \o conflict.agent1 \o " GD: " \o conflict.opinion1 \o "\n"
        \o "  - " \o conflict.agent2 \o " GD: " \o conflict.opinion2 \o "\n"
        \o "  QSFTGXXLYYZZGD!"

\* msg.get("agent") and msg.get("content")
IsValidMessage(msg) ==
    /\ "agent" \in DOMAIN msg /\ msg.agent # ""
    /\ "content" \in DOMAIN msg /\ msg.content # ""

\* moderate_discussion(agent_messages)
ModerateDiscussion(agent_messages) ==
    LET valid_messages == SelectSeq(agent_messages, IsValidMessage)
        ops == [n \in 1..Len(valid_messages) |->
                   [agent   |-> valid_messages[n].agent,
                    opinion |-> valid_messages[n].content,
                    sources |-> valid_messages[n].sources]]
    IN  IF valid_messages = << >>
        THEN << NoValidNote >>
        ELSE With(DetectConflicts(ops),
                  LAMBDA conflicts :
                     IF conflicts = << >>
                     THEN << ConsistentNote >>
                     ELSE [n \in 1..Len(conflicts) |-> ConflictNote(conflicts[n])])

\* sep.join(parts)
RECURSIVE Join(_, _)
Join(parts, sep) ==
    IF parts = << >> THEN ""
    ELSE IF Len(parts) = 1 THEN parts[1]
    ELSE parts[1] \o sep \o Join(Tail(parts), sep)

\* s[:300] of a speech and moderation_text[:500]
SpeechMaxLen == 300

ModerationMaxLen == 500

\* _build_user_prompt(parsed_content, moderation_text): the parts the
\* prompt is made of
BuildUserPrompt(parsed_content, moderation_text) ==
    [speeches_text |->
        [n \in 1..Len(parsed_content.agent_speeches) |->
            LET s == parsed_content.agent_speeches[n]
            IN  [timestamp |-> s.timestamp, speaker |-> s.speaker,
                 content |-> Cut(s.content, SpeechMaxLen) \o "..."]],
     moderation_text |->
        IF Len(moderation_text) > ModerationMaxLen
        THEN Cut(moderation_text, ModerationMaxLen) \o "..."
        ELSE moderation_text]

\* re.sub(r'\n{3,}', '\n\n', speech)
RECURSIVE CollapseNewlines(_)
CollapseNewlines(speech) ==
    IF speech = "" THEN ""
    ELSE IF CharAt(speech, 1) # "\n"
    THEN CharAt(speech, 1) \o CollapseNewlines(SubSeq(speech, 2, Len(speech)))
    ELSE With(SkipWhile(speech, 1, { "\n" }),
              LAMBDA n : (IF n - 1 >= 3 THEN "\n\n" ELSE SubSeq(speech, 1, n - 1))
                            \o CollapseNewlines(SubSeq(speech, n, Len(speech))))

\* s.strip(chars)
RECURSIVE StripChars(_, _)
StripChars(s, chars) ==
    IF s = "" THEN ""
    ELSE IF CharAt(s, 1) \in chars THEN StripChars(SubSeq(s, 2, Len(s)), chars)
    ELSE IF CharAt(s, Len(s)) \in chars
    THEN StripChars(SubSeq(s, 1, Len(s) - 1), chars)
    ELSE s

\* the quotes _format_host_speech removes, of which the model's strings
\* hold the two of ASCII, and the whitespace they hold
QuoteChars == { "\"", "'" }

Whitespace == { " ", "\n" }

\* _format_host_speech(speech), for a str
FormatHostSpeech(speech) ==
    StripChars(StripChars(CollapseNewlines(speech), QuoteChars), Whitespace)

\* the messages generate_host_speech makes of the speeches
AgentMessages(parsed_content) ==
    [n \in 1..Len(parsed_content.agent_speeches) |->
        [agent   |-> parsed_content.agent_speeches[n].speaker,
         content |-> parsed_content.agent_speeches[n].content,
         sources |-> << >>]]

\* the statements of the outer try of generate_host_speech, up to the
\* return or the exception that ends them; env tells which step throws and
\* what _call_qwen_api answers
HostTry(logs, env) ==
    IF env.raising = "parse"
    THEN [raise |-> "Exception", llm_calls |-> << >>, moderation_text |-> ""]
    ELSE
    With(ParseForumLogs(logs),
         LAMBDA parsed_content :
    IF parsed_content.agent_speeches = << >>
    THEN [returns |-> None, llm_calls |-> << >>, moderation_text |-> ""]
    ELSE
    With(IF env.raising = "check"
         THEN DegradedNotice
         ELSE Join(ModerateDiscussion(AgentMessages(parsed_content)), "\n\n"),
         LAMBDA moderation_text :
    IF env.raising = "prompt"
    THEN [raise |-> "Exception", llm_calls |-> << >>,
          moderation_text |-> moderation_text]
    ELSE
    LET user_prompt == BuildUserPrompt(parsed_content, moderation_text)
        response    == env.response
        out         == [llm_calls |-> << user_prompt >>,
                        moderation_text |-> moderation_text]
    IN  IF response.success
        THEN IF response.content = None
             THEN [raise |-> "TypeError"] @@ out
             ELSE IF env.raising = "format"
             THEN [raise |-> "Exception"] @@ out
             ELSE [returns |-> FormatHostSpeech(response.content)] @@ out
        ELSE [returns |-> None] @@ out))

\* a slip: the outer try has no except clause
GenerateHostSpeechUncaught(logs, env) ==
    With(HostTry(logs, env),
         LAMBDA out :
            [method          |-> "generate_host_speech",
             returned        |-> IF "raise" \in DOMAIN out THEN None ELSE out.returns,
             raised          |-> IF "raise" \in DOMAIN out THEN out.raise ELSE None,
             llm_calls       |-> out.llm_calls,
             moderation_text |-> out.moderation_text])

\* generate_host_speech(forum_logs): what it returns, what it raises, the
\* prompts it sent and the text of the conflict check
GenerateHostSpeech(logs, env) ==
    With(HostTry(logs, env),
         LAMBDA out :
            [method          |-> "generate_host_speech",
             returned        |-> IF "raise" \in DOMAIN out THEN None ELSE out.returns,
             raised          |-> None,
             llm_calls       |-> out.llm_calls,
             moderation_text |-> out.moderation_text])

\* the greatest number of lines of the logs and of opinions of a call
MaxLines == 2

MaxOpinions == 3

\* the lines of the logs: blank ones, ones the pattern does not match, ones
\* of speakers that are skipped, and speeches of the agents
LogLines ==
    { "", "  ", "zhu chi ren", "[10:00:06] [INSIGHT]",
      "[10:00:00] [SYSTEM] kai shi", "[10:00:01] [HOST] qing fa yan",
      "[10:00:05] [REPORT] fandui",
      "[10:00:02] [INSIGHT] wo zhichi", "[10:00:03][MEDIA] wo fandui",
      "[10:00:04] [QUERY] zhichi\\nzhengmian", "[10:00:07] [MEDIA] " }

\* the answers of _call_qwen_api
LlmResponses ==
    { [success |-> TRUE, content |-> "zong jie"],
      [success |-> TRUE, content |-> "\n'zong\n\n\njie' "],
      [success |-> TRUE, content |-> None],
      [success |-> FALSE, error |-> "unavailable"] }

\* the steps of generate_host_speech that may throw
HostSteps == { "parse", "check", "prompt", "format" }

\* what the collaborators do during one call
HostEnvs ==
    { [response |-> r, raising |-> None] : r \in LlmResponses }
        \cup { [response |-> [success |-> TRUE, content |-> "zong jie"],
                raising |-> step] : step \in HostSteps }

\* the opinions handed to _detect_conflicts: with and without the keywords,
\* blank, empty, without an agent and without the key
OpinionDicts ==
    { [agent |-> "INSIGHT", opinion |-> "zhichi zhengmian"],
      [agent |-> "MEDIA", opinion |-> "fandui fumian "],
      [agent |-> "QUERY", opinion |-> "wo zhichi"],
      [agent |-> "INSIGHT", opinion |-> "wozhichi"],
      [agent |-> "QUERY", opinion |-> "zhichi de fandui"],
      [agent |-> "MEDIA", opinion |-> " "],
      [agent |-> "QUERY", opinion |-> ""],
      [agent |-> "", opinion |-> "fandui"],
      [agent |-> "MEDIA"] }

HostInit ==
    /\ host_call = [method |-> "none"]
    /\ \/ /\ forum_logs \in SeqUpTo(LogLines, MaxLines)
          /\ host_env \in HostEnvs
          /\ opinions = << >>
       \/ /\ forum_logs = << >>
          /\ host_env = [response |-> [success |-> FALSE, error |-> "unavailable"],
                         raising |-> None]
          /\ opinions \in SeqUpTo(OpinionDicts, MaxOpinions)

GenerateHostSpeechCall ==
    /\ pc = "constructed"
    /\ host_call.method = "none"
    /\ host_call' = GenerateHostSpeech(forum_logs, host_env)
    /\ UNCHANGED << forum_logs, opinions, host_env >>
    /\ UNCHANGED << researchVars, dispatchVars, multimodalVars, constructVars,
                    topicVars, probeVars, cacheVars, repairVars, loaded_state >>

DetectConflictsCall ==
    /\ pc = "constructed"
    /\ host_call.method = "none"
    /\ host_call' = [method    |-> "_detect_conflicts",
                     conflicts |-> DetectConflicts(opinions)]
    /\ UNCHANGED << forum_logs, opinions, host_env >>
    /\ UNCHANGED << researchVars, dispatchVars, multimodalVars, constructVars,
                    topicVars, probeVars, cacheVars, repairVars, loaded_state >>

HostNext == GenerateHostSpeechCall \/ DetectConflictsCall

HostSpecInit ==
    /\ ResearchIdle /\ DispatchIdle /\ MultimodalIdle /\ ConstructIdle
    /\ TopicIdle /\ ProbeIdle /\ CacheIdle /\ PersistIdle /\ RepairIdle
    /\ HostInit

HostSpec == HostSpecInit /\ [][HostNext]_vars

----------------------------------------------------------------------------
(* Properties of the forum host *)

\* the lines of LogLines that are a speech of INSIGHT, MEDIA or QUERY
SpeechLines ==
    { "[10:00:02] [INSIGHT] wo zhichi", "[10:00:03][MEDIA] wo fandui",
      "[10:00:04] [QUERY] zhichi\\nzhengmian", "[10:00:07] [MEDIA] " }

\* the logs hold a speech of an agent
HasSpeech == \E n \in 1..Len(forum_logs) : forum_logs[n] \in SpeechLines

\* the positions of the valid opinions
ValidPlaces == { n \in 1..Len(opinions) : IsValidOpinion(opinions[n]) }

\* what a conflict shows of an opinion
Shown(op) == << op.agent, Cut(Strip(op.opinion), OpinionMaxLen) \o "..." >>

\* C38: generate_host_speech never raises; it returns None without a call
\* of the LLM when the logs hold no speech of INSIGHT, MEDIA or QUERY, and
\* returns None when the LLM reports failure or a step throws; when only the
\* conflict check throws, its text is the fixed notice and the LLM is still
\* called; _detect_conflicts reports at most one conflict for each pair of
\* valid opinions, and none when there are fewer than two of them
C38_HostNeverRaises ==
    /\ host_call.method = "generate_host_speech" =>
          /\ host_call.raised = None
          /\ Len(host_call.llm_calls) <= 1
          /\ ~HasSpeech =>
                host_call.returned = None /\ host_call.llm_calls = << >>
          /\ ~host_env.response.success => host_call.returned = None
          /\ host_env.raising \in { "parse", "prompt", "format" } =>
                host_call.returned = None
          /\ host_env.response.success /\ host_env.response.content = None =>
                host_call.returned = None
          /\ host_env.raising = "check" /\ HasSpeech =>
                /\ host_call.moderation_text = DegradedNotice
                /\ Len(host_call.llm_calls) = 1
                /\ host_call.llm_calls[1].moderation_text = DegradedNotice
                /\ host_call.returned = "zong jie"
    /\ host_call.method = "_detect_conflicts" =>
          /\ Cardinality(ValidPlaces) < 2 => host_call.conflicts = << >>
          /\ \A c \in Range(host_call.conflicts) :
                LET same  == { n \in 1..Len(host_call.conflicts) :
                                  LET d == host_call.conflicts[n]
                                  IN  /\ d.agent1 = c.agent1 /\ d.opinion1 = c.opinion1
                                      /\ d.agent2 = c.agent2 /\ d.opinion2 = c.opinion2 }
                    pairs == { ij \in ValidPlaces \X ValidPlaces :
                                  /\ ij[1] < ij[2]
                                  /\ Shown(opinions[ij[1]]) = << c.agent1, c.opinion1 >>
                                  /\ Shown(opinions[ij[2]]) = << c.agent2, c.opinion2 >> }
                IN  Cardinality(same) <= Cardinality(pairs)

\* the conflict check threw, the notice took its place and the LLM answered
C38_Witness ==
    /\ host_call.method = "generate_host_speech"
    /\ host_env.raising = "check"
    /\ HasSpeech
    /\ host_call.moderation_text = DegradedNotice
    /\ Len(host_call.llm_calls) = 1
    /\ host_call.returned = "zong jie"

\* two opinions that oppose each other by two pairs of keywords make one
\* conflict
C38_DetectorWitness ==
    /\ host_call.method = "_detect_conflicts"
    /\ opinions = << [agent |-> "INSIGHT", opinion |-> "zhichi zhengmian"],
                     [agent |-> "MEDIA", opinion |-> "fandui fumian "] >>
    /\ Len(host_call.conflicts) = 1
    /\ host_call.conflicts[1].opinion2 = "fandui fumian..."

\* the LLM answered nothing and the formatting threw
C38_ThrownWitness ==
    /\ host_call.method = "generate_host_speech"
    /\ HasSpeech
    /\ host_env.response.success /\ host_env.response.content = None
    /\ Len(host_call.llm_calls) = 1
    /\ host_call.returned = None

====
